---- MODULE Spec2Model ----
(***************************************************************************)
(* CLAP zero-shot tagging: the document-frequency weighting, the scorer,   *)
(* semantic matching, the evaluation loops and the run summaries of        *)
(* notebooks/03_clap_systems.                                              *)
(*                                                                         *)
(* Strings are sequences of one-character strings, so that split, strip    *)
(* and lower are computed character by character.  Floating-point values   *)
(* are exact rationals <<numerator, denominator>> with denominator > 0.    *)
(***************************************************************************)
EXTENDS Integers, Sequences, FiniteSets, TLC

VARIABLES
    pc,                    \* which notebook cell has been executed last
    metadata_df,           \* the 'tags' column of BSD10K_metadata_filtered.csv
    clap_tags,             \* the vocabulary, in file order
    total_documents,
    tag_document_counts,   \* Counter: function from the counted tags to counts
    row,                   \* index of the next row of metadata_df to count
    ALPHA,
    tag_df_scores,         \* dict: function from vocabulary tags to weights
    matched_tags,
    unmatched_tags,
    error,                 \* the exception raised by the last cell, or "none"
    scored,                \* arguments and return value of the last scorer call
    tag_embeddings,        \* dict in insertion order: sequence of [tag, embeds]
    audio_embeddings,      \* dict: function from sound ids to vectors
    filtered_pairs,        \* the clips of the run, in order
    clip,                  \* index of the next clip of filtered_pairs
    results,               \* the evaluation loop's result records
    tag_to_sbert,          \* dict: function from lowercased tags to phrase embeddings
    SIMILARITY_THRESHOLD,
    semantic,              \* arguments and return value of the last compute_semantic_hits call
    overall,               \* the variables assigned by the overall-metrics cell
    summary,               \* the summary dict of the save cell
    skips_reported,        \* the skips that the run has counted, printed or stored
    tag_embeddings_hyphen_npy,  \* the file of tag embeddings: one row per tag
    tag_embeddings_array,  \* the array loaded from the file
    valid_tags,            \* the set of tags of clap_tags.txt used by the data preparation
    filtered_df,           \* the sounds of the data preparation: rows of the dataframe
    final_df,              \* the sounds kept by the tag count filter
    test_data              \* the records of create_input_ground_truth_pairs

vars == <<pc, metadata_df, clap_tags, total_documents, tag_document_counts, row,
          ALPHA, tag_df_scores, matched_tags, unmatched_tags, error, scored,
          tag_embeddings, audio_embeddings, filtered_pairs, clip, results,
          tag_to_sbert, SIMILARITY_THRESHOLD, semantic, overall, summary,
          skips_reported, tag_embeddings_hyphen_npy, tag_embeddings_array,
          valid_tags, filtered_df,
          final_df, test_data>>

dfVars == <<metadata_df, clap_tags, total_documents, tag_document_counts, row,
            ALPHA, tag_df_scores, matched_tags, unmatched_tags>>

evalVars == <<tag_embeddings, audio_embeddings, filtered_pairs, clip, results>>

sbertVars == <<tag_to_sbert, SIMILARITY_THRESHOLD, semantic>>

reportVars == <<overall, summary, skips_reported>>

loadVars == <<tag_embeddings_hyphen_npy, tag_embeddings_array>>

prepVars == <<valid_tags, filtered_df, final_df, test_data>>

----------------------------------------------------------------------------
(* Bounds of the model *)

MaxDocs == 3        \* documents in the reference corpus
MaxVocab == 3       \* tags in the vocabulary given to the scorer
MaxK == 3           \* largest top_k given to the scorer
MaxClips == 2       \* clips evaluated in one run
MaxTags == 2        \* tags in a list given to compute_semantic_hits

----------------------------------------------------------------------------
(* Exact rational arithmetic standing for Python floats *)

Abs(x) == IF x < 0 THEN -x ELSE x

RECURSIVE GCD(_, _)
GCD(a, b) == IF b = 0 THEN a ELSE GCD(b, a % b)

\* canonical form: positive denominator, lowest terms
Rat(n, d) ==
    LET s == IF d < 0 THEN -1 ELSE 1
        g == GCD(Abs(n), Abs(d))
    IN  <<(s * n) \div g, (s * d) \div g>>

Zero == <<0, 1>>
One == <<1, 1>>

RAdd(x, y) == Rat(x[1] * y[2] + y[1] * x[2], x[2] * y[2])
RSub(x, y) == Rat(x[1] * y[2] - y[1] * x[2], x[2] * y[2])
RMul(x, y) == Rat(x[1] * y[1], x[2] * y[2])
RDiv(x, y) == Rat(x[1] * y[2], x[2] * y[1])
RLt(x, y) == x[1] * y[2] < y[1] * x[2]
RLe(x, y) == x[1] * y[2] <= y[1] * x[2]

\* math.log(n) for n = 1, 2, ..., to three decimals
LogTable == <<0, 693, 1099, 1386, 1609, 1792, 1946, 2079, 2197, 2303>>
MathLog(n) == <<LogTable[n], 1000>>

----------------------------------------------------------------------------
(* str.lower, str.strip, str.split(',') *)

LowerChar(c) ==
    CASE c = "A" -> "a"
      [] c = "B" -> "b"
      [] c = "C" -> "c"
      [] c = "D" -> "d"
      [] OTHER -> c

Lower(s) == [i \in 1..Len(s) |-> LowerChar(s[i])]

RECURSIVE LStrip(_)
LStrip(s) == IF s # <<>> /\ Head(s) = " " THEN LStrip(Tail(s)) ELSE s

RECURSIVE RStrip(_)
RStrip(s) ==
    IF s # <<>> /\ s[Len(s)] = " " THEN RStrip(SubSeq(s, 1, Len(s) - 1)) ELSE s

Strip(s) == RStrip(LStrip(s))

\* the pieces of s between commas, in order; empty pieces are kept
RECURSIVE Split(_)
Split(s) ==
    IF \E i \in 1..Len(s) : s[i] = ","
    THEN LET i == CHOOSE k \in 1..Len(s) :
                      s[k] = "," /\ \A j \in 1..(k - 1) : s[j] # ","
         IN  <<SubSeq(s, 1, i - 1)>> \o Split(SubSeq(s, i + 1, Len(s)))
    ELSE <<s>>

Range(f) == {f[i] : i \in DOMAIN f}

\* all sequences over S of length lo..hi
SeqsOf(S, lo, hi) == UNION {[1..n -> S] : n \in lo..hi}

----------------------------------------------------------------------------
(* Inputs: the loaded data *)

\* values of the 'tags' column: comma-separated, any case, optional blanks
TagStrings ==
    { <<"a">>,
      <<"a", ",", "b">>,
      <<"A", ",", " ", "a">>,
      <<" ", "b", " ", ",", "B", ",", "c">>,
      <<"c", ",", ",", "a">>,
      <<"b">>,
      <<"a", ",", "c">> }

\* vocabularies as read from the tagset file, one tag per line, no repeats
Vocabularies ==
    { <<<<"a">>, <<"B">>, <<"d">>>>,
      <<<<"c">>, <<"a">>>>,
      <<<<"a">>, <<"b">>, <<"c">>>> }

\* values of the tunable ALPHA: 0, 0.3, 0.7 (the notebooks' value), 1
Alphas == { <<0, 1>>, <<3, 10>>, <<7, 10>>, <<1, 1>> }

EmptyDict == [t \in {} |-> 0]
NoCall == [kind |-> "none"]

----------------------------------------------------------------------------
(* Cell 2a: count the documents each tag occurs in *)

\* RowTags without the strip().lower() normalization
RowTagsRaw(tags_string) == Split(tags_string)

\* lines 116-118: the normalized tag list of one row
RowTags(tags_string) ==
    LET tags == Split(tags_string)
    IN  [i \in 1..Len(tags) |-> Lower(Strip(tags[i]))]

\* CountUnique without set(tags): every occurrence in the row is counted
CountOccurrences(counts, tags) ==
    [t \in (DOMAIN counts) \cup Range(tags) |->
        (IF t \in DOMAIN counts THEN counts[t] ELSE 0)
      + Cardinality({i \in 1..Len(tags) : tags[i] = t})]

\* lines 121-123: one pass of "for tag in unique_tags: counts[tag] += 1"
CountUnique(counts, tags) ==
    LET unique_tags == Range(tags)
    IN  [t \in (DOMAIN counts) \cup unique_tags |->
            (IF t \in DOMAIN counts THEN counts[t] ELSE 0)
          + (IF t \in unique_tags THEN 1 ELSE 0)]

StartCounting ==
    /\ pc = "loaded"
    /\ tag_document_counts' = EmptyDict
    /\ total_documents' = Len(metadata_df)
    /\ row' = 1
    /\ pc' = "counting"
    /\ UNCHANGED <<metadata_df, clap_tags, ALPHA, tag_df_scores, matched_tags,
                   unmatched_tags, error, scored>>
    /\ UNCHANGED evalVars
    /\ UNCHANGED <<sbertVars, reportVars>>
    /\ UNCHANGED <<loadVars, prepVars>>

CountRow ==
    /\ pc = "counting"
    /\ row <= Len(metadata_df)
    /\ tag_document_counts' =
           CountUnique(tag_document_counts, RowTags(metadata_df[row]))
    /\ row' = row + 1
    /\ UNCHANGED <<pc, metadata_df, clap_tags, total_documents, ALPHA,
                   tag_df_scores, matched_tags, unmatched_tags, error, scored>>
    /\ UNCHANGED evalVars
    /\ UNCHANGED <<sbertVars, reportVars>>
    /\ UNCHANGED <<loadVars, prepVars>>

----------------------------------------------------------------------------
(* Cell 2b: the DF weight of every vocabulary tag *)

\* does the matched branch divide by zero for this tag?
DFDividesByZero(tag, counts, total) ==
    /\ Lower(tag) \in DOMAIN counts
    /\ MathLog(1 + total)[1] = 0

\* DFScore with the scorer's fallback 1.0 for a tag unseen in the corpus
DFScoreDefaultOne(tag, counts, total, alpha) ==
    LET tag_lower == Lower(tag)
    IN  IF tag_lower \in DOMAIN counts
        THEN RAdd(RSub(One, alpha),
                  RMul(alpha, RDiv(MathLog(1 + counts[tag_lower]), MathLog(1 + total))))
        ELSE One

\* DFScore with the two interpolation coefficients exchanged
DFScoreSwapped(tag, counts, total, alpha) ==
    LET tag_lower == Lower(tag)
    IN  IF tag_lower \in DOMAIN counts
        THEN RAdd(alpha,
                  RMul(RSub(One, alpha),
                       RDiv(MathLog(1 + counts[tag_lower]), MathLog(1 + total))))
        ELSE RSub(One, alpha)

\* DFScore with df / N in place of log(1 + df) / log(1 + N)
DFScoreLinear(tag, counts, total, alpha) ==
    LET tag_lower == Lower(tag)
    IN  IF tag_lower \in DOMAIN counts
        THEN RAdd(RSub(One, alpha), RMul(alpha, Rat(counts[tag_lower], total)))
        ELSE RSub(One, alpha)

\* lines 153-168: the weight stored for one vocabulary tag
DFScore(tag, counts, total, alpha) ==
    LET tag_lower == Lower(tag)
    IN  IF tag_lower \in DOMAIN counts
        THEN LET df_count == counts[tag_lower]
                 normalized_df == RDiv(MathLog(1 + df_count), MathLog(1 + total))
             IN  RAdd(RSub(One, alpha), RMul(alpha, normalized_df))
        ELSE RSub(One, alpha)

CreateDFMapping ==
    /\ pc = "counting"
    /\ row > Len(metadata_df)
    /\ \E alpha \in Alphas :
         /\ ALPHA' = alpha
         /\ IF \E i \in 1..Len(clap_tags) :
                   DFDividesByZero(clap_tags[i], tag_document_counts, total_documents)
            THEN /\ error' = "ZeroDivisionError"
                 /\ UNCHANGED <<tag_df_scores, matched_tags, unmatched_tags>>
            ELSE /\ error' = "none"
                 /\ tag_df_scores' =
                        [t \in Range(clap_tags) |->
                            DFScore(t, tag_document_counts, total_documents, alpha)]
                 /\ matched_tags' =
                        Cardinality({i \in 1..Len(clap_tags) :
                            Lower(clap_tags[i]) \in DOMAIN tag_document_counts})
                 /\ unmatched_tags' =
                        Cardinality({i \in 1..Len(clap_tags) :
                            Lower(clap_tags[i]) \notin DOMAIN tag_document_counts})
    /\ pc' = "mapped"
    /\ UNCHANGED <<metadata_df, clap_tags, total_documents, tag_document_counts,
                   row, scored>>
    /\ UNCHANGED evalVars
    /\ UNCHANGED <<sbertVars, reportVars>>
    /\ UNCHANGED <<loadVars, prepVars>>

----------------------------------------------------------------------------
(* The DF pipeline: load, count, map *)

InitDF ==
    /\ pc = "loaded"
    /\ metadata_df \in SeqsOf(TagStrings, 0, MaxDocs)
    /\ clap_tags \in Vocabularies
    /\ total_documents = 0
    /\ tag_document_counts = EmptyDict
    /\ row = 0
    /\ ALPHA = Zero
    /\ tag_df_scores = EmptyDict
    /\ matched_tags = 0
    /\ unmatched_tags = 0
    /\ error = "none"
    /\ scored = NoCall
    /\ tag_embeddings = <<>>
    /\ audio_embeddings = EmptyDict
    /\ filtered_pairs = <<>>
    /\ clip = 0
    /\ results = <<>>
    /\ tag_to_sbert = EmptyDict
    /\ SIMILARITY_THRESHOLD = <<7, 10>>
    /\ semantic = NoCall
    /\ overall = EmptyDict
    /\ summary = EmptyDict
    /\ skips_reported = 0
    /\ tag_embeddings_hyphen_npy = <<>>
    /\ tag_embeddings_array = <<>>
    /\ valid_tags = {}
    /\ filtered_df = <<>>
    /\ final_df = <<>>
    /\ test_data = <<>>

NextDF == StartCounting \/ CountRow \/ CreateDFMapping

SpecDF == InitDF /\ [][NextDF]_vars

----------------------------------------------------------------------------
(* sklearn cosine_similarity, np.max, sorted, slicing *)

Min(a, b) == IF a < b THEN a ELSE b
Max(a, b) == IF a > b THEN a ELSE b

RECURSIVE DotUpTo(_, _, _)
DotUpTo(a, b, n) == IF n = 0 THEN 0 ELSE DotUpTo(a, b, n - 1) + a[n] * b[n]

Dot(a, b) == DotUpTo(a, b, Len(a))

\* the vectors of the model have integer lengths
ISqrt(n) == CHOOSE r \in 0..n : r * r = n

VecNorm(a) == ISqrt(Dot(a, a))

\* a zero vector is left unnormalized by sklearn, so its similarity is 0
CosineSimilarity(a, b) ==
    IF VecNorm(a) = 0 \/ VecNorm(b) = 0
    THEN Zero
    ELSE Rat(Dot(a, b), VecNorm(a) * VecNorm(b))

\* cosine_similarity([audio_embedding], text_embeds)[0]
Similarities(audio_embedding, text_embeds) ==
    [i \in 1..Len(text_embeds) |-> CosineSimilarity(audio_embedding, text_embeds[i])]

RECURSIVE RSumUpTo(_, _)
RSumUpTo(xs, n) == IF n = 0 THEN Zero ELSE RAdd(RSumUpTo(xs, n - 1), xs[n])

\* np.mean in the place of np.max
NpMean(xs) == RDiv(RSumUpTo(xs, Len(xs)), <<Len(xs), 1>>)

NpMax(xs) == CHOOSE x \in Range(xs) : \A y \in Range(xs) : RLe(y, x)

\* an insertion that puts index i before the entries of equal key
InsertBeforeEqual(perm, i, keys) ==
    LET p == Cardinality({j \in 1..Len(perm) : RLt(keys[i], keys[perm[j]])})
    IN  SubSeq(perm, 1, p) \o <<i>> \o SubSeq(perm, p + 1, Len(perm))

\* index i goes after every entry whose key is >= its own: equal keys keep
\* their original order, as sorted(..., reverse=True) guarantees
InsertStable(perm, i, keys) ==
    LET p == Cardinality({j \in 1..Len(perm) : RLe(keys[i], keys[perm[j]])})
    IN  SubSeq(perm, 1, p) \o <<i>> \o SubSeq(perm, p + 1, Len(perm))

RECURSIVE SortedPrefix(_, _)
SortedPrefix(keys, n) ==
    IF n = 0 THEN <<>> ELSE InsertStable(SortedPrefix(keys, n - 1), n, keys)

\* sorted(items, key=..., reverse=True) as the permutation of the item indices
SortedDesc(keys) == SortedPrefix(keys, Len(keys))

\* a slice that forgets the cutoff
SliceAll(xs, k) == xs

\* xs[:k]
SliceTo(xs, k) ==
    IF k >= 0
    THEN SubSeq(xs, 1, Min(k, Len(xs)))
    ELSE SubSeq(xs, 1, Max(0, Len(xs) + k))

\* DictGet that always takes the fallback value
DictGetFallback(d, key, default) == default

\* d.get(key, default)
DictGet(d, key, default) == IF key \in DOMAIN d THEN d[key] ELSE default

----------------------------------------------------------------------------
(* get_tag_recommendations and get_tag_recommendations_df_weighted *)

GetTagRecommendations(audio_embedding, embeddings, top_k) ==
    LET tag_similarities ==
            [i \in 1..Len(embeddings) |->
                NpMax(Similarities(audio_embedding, embeddings[i].embeds))]
        sorted_tags == SortedDesc(tag_similarities)
        top == SliceTo(sorted_tags, top_k)
    IN  [top_tags |-> [i \in 1..Len(top) |-> embeddings[top[i]].tag],
         top_scores |-> [i \in 1..Len(top) |-> tag_similarities[top[i]]]]

\* sorting the DF-weighted entries by their unweighted similarity
BaseSortKey(entry) == entry.base_similarity

\* key=lambda x: x[1]['weighted_similarity']
WeightedSortKey(entry) == entry.weighted_similarity

\* GetTagRecommendationsDFWeighted adding the weight to the similarity
GetTagRecommendationsDFAdditive(audio_embedding, embeddings, df_scores, top_k) ==
    LET tag_similarities ==
            [i \in 1..Len(embeddings) |->
                LET base_similarity ==
                        NpMax(Similarities(audio_embedding, embeddings[i].embeds))
                    df_weight == DictGet(df_scores, embeddings[i].tag, One)
                IN  [base_similarity |-> base_similarity,
                     df_weight |-> df_weight,
                     weighted_similarity |-> RAdd(base_similarity, df_weight)]]
        sorted_tags ==
            SortedDesc([i \in 1..Len(embeddings) |->
                            WeightedSortKey(tag_similarities[i])])
        top == SliceTo(sorted_tags, top_k)
    IN  [top_tags |-> [i \in 1..Len(top) |-> embeddings[top[i]].tag],
         top_scores |->
            [i \in 1..Len(top) |-> tag_similarities[top[i]].weighted_similarity],
         top_base_scores |->
            [i \in 1..Len(top) |-> tag_similarities[top[i]].base_similarity],
         top_df_weights |->
            [i \in 1..Len(top) |-> tag_similarities[top[i]].df_weight]]

GetTagRecommendationsDFWeighted(audio_embedding, embeddings, df_scores, top_k) ==
    LET tag_similarities ==
            [i \in 1..Len(embeddings) |->
                LET base_similarity ==
                        NpMax(Similarities(audio_embedding, embeddings[i].embeds))
                    df_weight == DictGet(df_scores, embeddings[i].tag, One)
                IN  [base_similarity |-> base_similarity,
                     df_weight |-> df_weight,
                     weighted_similarity |-> RMul(base_similarity, df_weight)]]
        sorted_tags ==
            SortedDesc([i \in 1..Len(embeddings) |->
                            WeightedSortKey(tag_similarities[i])])
        top == SliceTo(sorted_tags, top_k)
    IN  [top_tags |-> [i \in 1..Len(top) |-> embeddings[top[i]].tag],
         top_scores |->
            [i \in 1..Len(top) |-> tag_similarities[top[i]].weighted_similarity],
         top_base_scores |->
            [i \in 1..Len(top) |-> tag_similarities[top[i]].base_similarity],
         top_df_weights |->
            [i \in 1..Len(top) |-> tag_similarities[top[i]].df_weight]]

----------------------------------------------------------------------------
(* Inputs of the scorer *)

\* audio embeddings: dimension 2, one of them the zero vector
AudioVectors == { <<3, 4>>, <<5, 0>>, <<0, 0>> }

\* the paraphrase-variant embeddings of one tag: 4 variants, dimension 2
VariantEmbeddings ==
    { << <<3, 4>>, <<4, 3>>, <<5, 0>>, <<0, 5>> >>,
      << <<0, 10>>, <<0, 5>>, <<-3, -4>>, <<0, 0>> >>,
      << <<-3, -4>>, <<-5, 0>>, <<-3, -4>>, <<-4, -3>> >> }

\* tag names, in vocabulary order
ScorerTags == << <<"a">>, <<"B">>, <<"c">>, <<"d">>, <<"e">>, <<"f">> >>

\* the dicts built from the first n tags, in insertion order
EmbeddingDicts(n) ==
    { [i \in 1..n |-> [tag |-> ScorerTags[i], embeds |-> e[i]]] :
        e \in [1..n -> VariantEmbeddings] }

\* weight tables: empty, the table of ALPHA = 0, complete, partial, and one
\* with weights 0
WeightTables ==
    { EmptyDict,
      [t \in Range(ScorerTags) |-> One],
      (<<"a">> :> <<3, 10>>) @@ (<<"B">> :> One) @@ (<<"c">> :> <<13, 20>>)
        @@ (<<"d">> :> <<3, 10>>) @@ (<<"e">> :> One) @@ (<<"f">> :> <<13, 20>>),
      (<<"B">> :> <<3, 10>>) @@ (<<"d">> :> <<1, 2>>),
      (<<"a">> :> Zero) @@ (<<"B">> :> Zero) @@ (<<"c">> :> One) }

----------------------------------------------------------------------------
(* The scorer, called on any audio embedding, vocabulary, table and top_k *)

CallBaseline ==
    /\ pc = "scorer"
    /\ \E audio \in AudioVectors, n \in 0..MaxVocab, k \in 0..MaxK :
         \E embeddings \in EmbeddingDicts(n) :
           LET r == GetTagRecommendations(audio, embeddings, k)
           IN  scored' = [kind |-> "baseline",
                          audio_embedding |-> audio,
                          embeddings |-> embeddings,
                          df_scores |-> EmptyDict,
                          top_k |-> k,
                          top_tags |-> r.top_tags,
                          top_scores |-> r.top_scores,
                          top_base_scores |-> <<>>,
                          top_df_weights |-> <<>>]
    /\ pc' = "returned"
    /\ UNCHANGED error
    /\ UNCHANGED dfVars
    /\ UNCHANGED evalVars
    /\ UNCHANGED <<sbertVars, reportVars>>
    /\ UNCHANGED <<loadVars, prepVars>>

CallDFWeighted ==
    /\ pc = "scorer"
    /\ \E audio \in AudioVectors, n \in 0..MaxVocab, k \in 0..MaxK,
          table \in WeightTables :
         \E embeddings \in EmbeddingDicts(n) :
           LET r == GetTagRecommendationsDFWeighted(audio, embeddings, table, k)
           IN  scored' = [kind |-> "df",
                          audio_embedding |-> audio,
                          embeddings |-> embeddings,
                          df_scores |-> table,
                          top_k |-> k,
                          top_tags |-> r.top_tags,
                          top_scores |-> r.top_scores,
                          top_base_scores |-> r.top_base_scores,
                          top_df_weights |-> r.top_df_weights]
    /\ pc' = "returned"
    /\ UNCHANGED error
    /\ UNCHANGED dfVars
    /\ UNCHANGED evalVars
    /\ UNCHANGED <<sbertVars, reportVars>>
    /\ UNCHANGED <<loadVars, prepVars>>

InitScorer ==
    /\ pc = "scorer"
    /\ metadata_df = <<>>
    /\ clap_tags = <<>>
    /\ total_documents = 0
    /\ tag_document_counts = EmptyDict
    /\ row = 0
    /\ ALPHA = Zero
    /\ tag_df_scores = EmptyDict
    /\ matched_tags = 0
    /\ unmatched_tags = 0
    /\ error = "none"
    /\ scored = NoCall
    /\ tag_embeddings = <<>>
    /\ audio_embeddings = EmptyDict
    /\ filtered_pairs = <<>>
    /\ clip = 0
    /\ results = <<>>
    /\ tag_to_sbert = EmptyDict
    /\ SIMILARITY_THRESHOLD = <<7, 10>>
    /\ semantic = NoCall
    /\ overall = EmptyDict
    /\ summary = EmptyDict
    /\ skips_reported = 0
    /\ tag_embeddings_hyphen_npy = <<>>
    /\ tag_embeddings_array = <<>>
    /\ valid_tags = {}
    /\ filtered_df = <<>>
    /\ final_df = <<>>
    /\ test_data = <<>>

NextScorer == CallBaseline \/ CallDFWeighted

SpecScorer == InitScorer /\ [][NextScorer]_vars

----------------------------------------------------------------------------
(* compute_semantic_hits of the SBERT notebook *)

\* Python's None; no tag, since a tag is a sequence of single characters
None == <<"None">>

\* the hit test with ">" for ">="
IsSemanticHitStrict(max_similarity, similarity_threshold) ==
    RLt(similarity_threshold, max_similarity)

\* "if max_similarity >= similarity_threshold"
IsSemanticHit(max_similarity, similarity_threshold) ==
    RLe(similarity_threshold, max_similarity)

\* the inner loop over the first n ground-truth tags, for one predicted tag
RECURSIVE BestMatchUpTo(_, _, _, _)
BestMatchUpTo(pred_embedding, ground_truth_tags_lower, sbert, n) ==
    IF n = 0
    THEN [max_similarity |-> Zero, best_match |-> None]
    ELSE LET prev == BestMatchUpTo(pred_embedding, ground_truth_tags_lower, sbert, n - 1)
             gt_tag == ground_truth_tags_lower[n]
         IN  IF gt_tag \notin DOMAIN sbert
             THEN prev
             ELSE LET similarity == CosineSimilarity(pred_embedding, sbert[gt_tag])
                  IN  IF RLt(prev.max_similarity, similarity)
                      THEN [max_similarity |-> similarity, best_match |-> gt_tag]
                      ELSE prev

\* the outer loop over the first n predicted tags
RECURSIVE SemanticHitsUpTo(_, _, _, _, _)
SemanticHitsUpTo(predicted_tags_lower, ground_truth_tags_lower, sbert, similarity_threshold, n) ==
    IF n = 0
    THEN [hits |-> <<>>, semantic_matches |-> <<>>]
    ELSE LET prev == SemanticHitsUpTo(predicted_tags_lower, ground_truth_tags_lower,
                                      sbert, similarity_threshold, n - 1)
             pred_tag == predicted_tags_lower[n]
         IN  IF pred_tag \notin DOMAIN sbert
             THEN prev
             ELSE LET b == BestMatchUpTo(sbert[pred_tag], ground_truth_tags_lower,
                                         sbert, Len(ground_truth_tags_lower))
                  IN  IF IsSemanticHit(b.max_similarity, similarity_threshold)
                      THEN [hits |-> Append(prev.hits, pred_tag),
                            semantic_matches |->
                                Append(prev.semantic_matches,
                                       [predicted |-> pred_tag,
                                        matched_gt |-> b.best_match,
                                        similarity |-> b.max_similarity])]
                      ELSE prev

ComputeSemanticHits(predicted_tags, ground_truth_tags, sbert, similarity_threshold) ==
    LET predicted_tags_lower ==
            [i \in 1..Len(predicted_tags) |-> Lower(predicted_tags[i])]
        ground_truth_tags_lower ==
            [i \in 1..Len(ground_truth_tags) |-> Lower(ground_truth_tags[i])]
    IN  SemanticHitsUpTo(predicted_tags_lower, ground_truth_tags_lower, sbert,
                         similarity_threshold, Len(predicted_tags_lower))

----------------------------------------------------------------------------
(* compute_semantic_hits, called on any two tag lists, table and threshold *)

PredictedTagPool == { <<"a">>, <<"B">>, <<"c">> }

GroundTruthTagPool == { <<"A">>, <<"b">>, <<"d">>, <<"x">> }

\* phrase embeddings are encoder outputs: none is the zero vector
PhraseTables ==
    { (<<"a">> :> <<3, 4>>) @@ (<<"b">> :> <<4, 3>>) @@ (<<"c">> :> <<-3, -4>>) @@
      (<<"d">> :> <<3, 4>>) @@ (<<"x">> :> <<4, 3>>),
      (<<"a">> :> <<5, 0>>) @@ (<<"b">> :> <<0, 5>>) @@ (<<"d">> :> <<0, -5>>) @@
      (<<"x">> :> <<3, 4>>),
      (<<"a">> :> <<3, 4>>) @@ (<<"x">> :> <<4, 3>>) }

Thresholds == { <<-1, 2>>, <<0, 1>>, <<7, 10>>, <<1, 1>> }

CallComputeSemanticHits ==
    /\ pc = "semantic"
    /\ \E predicted_tags \in SeqsOf(PredictedTagPool, 0, MaxTags),
          ground_truth_tags \in SeqsOf(GroundTruthTagPool, 0, MaxTags),
          sbert \in PhraseTables,
          similarity_threshold \in Thresholds :
         LET r == ComputeSemanticHits(predicted_tags, ground_truth_tags, sbert,
                                      similarity_threshold)
         IN  semantic' = [kind |-> "semantic",
                          predicted_tags |-> predicted_tags,
                          ground_truth_tags |-> ground_truth_tags,
                          tag_to_sbert |-> sbert,
                          similarity_threshold |-> similarity_threshold,
                          hits |-> r.hits,
                          semantic_matches |-> r.semantic_matches]
    /\ pc' = "returned"
    /\ UNCHANGED <<error, scored, tag_to_sbert, SIMILARITY_THRESHOLD>>
    /\ UNCHANGED dfVars
    /\ UNCHANGED evalVars
    /\ UNCHANGED reportVars
    /\ UNCHANGED <<loadVars, prepVars>>

InitSemantic ==
    /\ pc = "semantic"
    /\ metadata_df = <<>>
    /\ clap_tags = <<>>
    /\ total_documents = 0
    /\ tag_document_counts = EmptyDict
    /\ row = 0
    /\ ALPHA = Zero
    /\ tag_df_scores = EmptyDict
    /\ matched_tags = 0
    /\ unmatched_tags = 0
    /\ error = "none"
    /\ scored = NoCall
    /\ tag_embeddings = <<>>
    /\ audio_embeddings = EmptyDict
    /\ filtered_pairs = <<>>
    /\ clip = 0
    /\ results = <<>>
    /\ tag_to_sbert = EmptyDict
    /\ SIMILARITY_THRESHOLD = <<7, 10>>
    /\ semantic = NoCall
    /\ overall = EmptyDict
    /\ summary = EmptyDict
    /\ skips_reported = 0
    /\ tag_embeddings_hyphen_npy = <<>>
    /\ tag_embeddings_array = <<>>
    /\ valid_tags = {}
    /\ filtered_df = <<>>
    /\ final_df = <<>>
    /\ test_data = <<>>

NextSemantic == CallComputeSemanticHits

SpecSemantic == InitSemantic /\ [][NextSemantic]_vars

----------------------------------------------------------------------------
(* The evaluation loop: one iteration per clip of filtered_pairs *)

EvalTopK == 10              \* top_k=10 of the loop's scorer call
PrecisionDivisor == 10      \* precision = len(hits) / 10.0

\* the intersection taken without lowercasing the predictions
ExactHitsRawPredictions(predicted_tags, ground_truth_tags) ==
    Range(predicted_tags) \cap Range(ground_truth_tags)

\* hits = list(set(predicted_tags_lower) & set(ground_truth_tags)), where
\* ground_truth_tags is already lowercased
ExactHits(predicted_tags, ground_truth_tags) ==
    LET predicted_tags_lower ==
            [i \in 1..Len(predicted_tags) |-> Lower(predicted_tags[i])]
    IN  Range(predicted_tags_lower) \cap Range(ground_truth_tags)

\* ClipMetrics with the precision divided by the number of ground-truth tags
ClipMetricsPrecisionOverGroundTruth(num_hits, ground_truth_tags) ==
    LET recall == IF ground_truth_tags # <<>>
                  THEN Rat(num_hits, Len(ground_truth_tags))
                  ELSE Zero
        precision == recall
        f1 == IF RLt(Zero, RAdd(precision, recall))
              THEN RDiv(RMul(<<2, 1>>, RMul(precision, recall)),
                        RAdd(precision, recall))
              ELSE Zero
    IN  [precision |-> precision, recall |-> recall, f1 |-> f1]

\* ClipMetrics with recall 1 for a clip without ground-truth tags
ClipMetricsEmptyRecallOne(num_hits, ground_truth_tags) ==
    LET precision == Rat(num_hits, PrecisionDivisor)
        recall == IF ground_truth_tags # <<>>
                  THEN Rat(num_hits, Len(ground_truth_tags))
                  ELSE One
        f1 == IF RLt(Zero, RAdd(precision, recall))
              THEN RDiv(RMul(<<2, 1>>, RMul(precision, recall)),
                        RAdd(precision, recall))
              ELSE Zero
    IN  [precision |-> precision, recall |-> recall, f1 |-> f1]

\* ClipMetrics with the arithmetic mean of precision and recall as f1
ClipMetricsArithmeticF1(num_hits, ground_truth_tags) ==
    LET precision == Rat(num_hits, PrecisionDivisor)
        recall == IF ground_truth_tags # <<>>
                  THEN Rat(num_hits, Len(ground_truth_tags))
                  ELSE Zero
        f1 == RDiv(RAdd(precision, recall), <<2, 1>>)
    IN  [precision |-> precision, recall |-> recall, f1 |-> f1]

\* precision, recall and f1 of one clip
ClipMetrics(num_hits, ground_truth_tags) ==
    LET precision == Rat(num_hits, PrecisionDivisor)
        recall == IF ground_truth_tags # <<>>
                  THEN Rat(num_hits, Len(ground_truth_tags))
                  ELSE Zero
        f1 == IF RLt(Zero, RAdd(precision, recall))
              THEN RDiv(RMul(<<2, 1>>, RMul(precision, recall)),
                        RAdd(precision, recall))
              ELSE Zero
    IN  [precision |-> precision, recall |-> recall, f1 |-> f1]

\* the result record of one clip that has an audio embedding
ClipResult(pair, r, base_scores, df_weights) ==
    LET ground_truth_tags ==
            [i \in 1..Len(pair.ground_truth_tags) |-> Lower(pair.ground_truth_tags[i])]
        hits == ExactHits(r.top_tags, ground_truth_tags)
        m == ClipMetrics(Cardinality(hits), ground_truth_tags)
    IN  [sound_id |-> pair.sound_id,
         title |-> pair.title,
         ground_truth_tags |-> ground_truth_tags,
         predicted_tags |-> r.top_tags,
         prediction_scores |-> r.top_scores,
         base_scores |-> base_scores,
         df_weights |-> df_weights,
         hits |-> hits,
         num_hits |-> Cardinality(hits),
         precision_at_10 |-> m.precision,
         recall |-> m.recall,
         f1_score |-> m.f1]

\* baseline notebook
EvaluateClipBaseline ==
    /\ pc = "eval_baseline"
    /\ clip <= Len(filtered_pairs)
    /\ LET pair == filtered_pairs[clip]
       IN  IF pair.sound_id \notin DOMAIN audio_embeddings
           THEN UNCHANGED results
           ELSE LET r == GetTagRecommendations(
                             audio_embeddings[pair.sound_id], tag_embeddings, EvalTopK)
                IN  results' = Append(results, ClipResult(pair, r, <<>>, <<>>))
    /\ clip' = clip + 1
    /\ UNCHANGED <<pc, error, scored, tag_embeddings, audio_embeddings, filtered_pairs>>
    /\ UNCHANGED dfVars
    /\ UNCHANGED <<sbertVars, reportVars>>
    /\ UNCHANGED <<loadVars, prepVars>>

\* DF notebook
EvaluateClipDF ==
    /\ pc = "eval_df"
    /\ clip <= Len(filtered_pairs)
    /\ LET pair == filtered_pairs[clip]
       IN  IF pair.sound_id \notin DOMAIN audio_embeddings
           THEN UNCHANGED results
           ELSE LET r == GetTagRecommendationsDFWeighted(
                             audio_embeddings[pair.sound_id], tag_embeddings,
                             tag_df_scores, EvalTopK)
                IN  results' = Append(results,
                        ClipResult(pair, r, r.top_base_scores, r.top_df_weights))
    /\ clip' = clip + 1
    /\ UNCHANGED <<pc, error, scored, tag_embeddings, audio_embeddings, filtered_pairs>>
    /\ UNCHANGED dfVars
    /\ UNCHANGED <<sbertVars, reportVars>>
    /\ UNCHANGED <<loadVars, prepVars>>

\* the result record of one clip of the SBERT notebook
ClipResultSBERT(pair, r, sbert, similarity_threshold) ==
    LET ground_truth_tags ==
            [i \in 1..Len(pair.ground_truth_tags) |-> Lower(pair.ground_truth_tags[i])]
        sem == ComputeSemanticHits(r.top_tags, ground_truth_tags, sbert,
                                   similarity_threshold)
        exact_hits == ExactHits(r.top_tags, ground_truth_tags)
        m == ClipMetrics(Len(sem.hits), ground_truth_tags)
    IN  [sound_id |-> pair.sound_id,
         title |-> pair.title,
         ground_truth_tags |-> ground_truth_tags,
         predicted_tags |-> r.top_tags,
         prediction_scores |-> r.top_scores,
         base_scores |-> r.top_base_scores,
         df_weights |-> r.top_df_weights,
         semantic_hits |-> sem.hits,
         semantic_matches |-> sem.semantic_matches,
         exact_hits |-> exact_hits,
         num_semantic_hits |-> Len(sem.hits),
         num_exact_hits |-> Cardinality(exact_hits),
         precision_at_10 |-> m.precision,
         recall |-> m.recall,
         f1_score |-> m.f1]

\* SBERT notebook
EvaluateClipSBERT ==
    /\ pc = "eval_sbert"
    /\ clip <= Len(filtered_pairs)
    /\ LET pair == filtered_pairs[clip]
       IN  IF pair.sound_id \notin DOMAIN audio_embeddings
           THEN UNCHANGED results
           ELSE LET r == GetTagRecommendationsDFWeighted(
                             audio_embeddings[pair.sound_id], tag_embeddings,
                             tag_df_scores, EvalTopK)
                IN  results' = Append(results,
                        ClipResultSBERT(pair, r, tag_to_sbert, SIMILARITY_THRESHOLD))
    /\ clip' = clip + 1
    /\ UNCHANGED <<pc, error, scored, tag_embeddings, audio_embeddings, filtered_pairs>>
    /\ UNCHANGED dfVars
    /\ UNCHANGED <<sbertVars, reportVars>>
    /\ UNCHANGED <<loadVars, prepVars>>

----------------------------------------------------------------------------
(* The overall-metrics cell and the save cell *)

PredictionsPerClip == 10    \* total_predictions = len(results) * 10

\* np.mean of an empty list
NaN == <<"nan">>

RECURSIVE SumUpTo(_, _)
SumUpTo(xs, n) == IF n = 0 THEN 0 ELSE SumUpTo(xs, n - 1) + xs[n]

\* sum(...) over a list of integers
Sum(xs) == SumUpTo(xs, Len(xs))

\* the mean that takes the median element
MeanAsMiddle(xs) == IF xs = <<>> THEN NaN ELSE xs[(Len(xs) + 1) \div 2]

\* np.mean(...) over a list of floats
Mean(xs) == IF xs = <<>> THEN NaN ELSE RDiv(RSumUpTo(xs, Len(xs)), <<Len(xs), 1>>)

\* "2 * (p * r) / (p + r) if (p + r) > 0 else 0"
F1(precision, recall) ==
    IF RLt(Zero, RAdd(precision, recall))
    THEN RDiv(RMul(<<2, 1>>, RMul(precision, recall)), RAdd(precision, recall))
    ELSE Zero

\* the variables the cell of the baseline and DF notebooks has assigned when
\* it ends, and the exception that ended it
OverallMetrics(rs) ==
    LET n == Len(rs)
        total_hits == Sum([i \in 1..n |-> rs[i].num_hits])
        total_predictions == n * PredictionsPerClip
        total_ground_truth == Sum([i \in 1..n |-> Len(rs[i].ground_truth_tags)])
        first == [total_hits |-> total_hits,
                  total_predictions |-> total_predictions,
                  total_ground_truth |-> total_ground_truth,
                  avg_precision_at_10 |-> Mean([i \in 1..n |-> rs[i].precision_at_10]),
                  avg_recall |-> Mean([i \in 1..n |-> rs[i].recall]),
                  avg_hits_per_clip |-> Mean([i \in 1..n |-> <<rs[i].num_hits, 1>>])]
    IN  IF total_predictions = 0
        THEN [error |-> "ZeroDivisionError", assigned |-> first]
        ELSE LET overall_precision == Rat(total_hits, total_predictions)
             IN  IF total_ground_truth = 0
                 THEN [error |-> "ZeroDivisionError",
                       assigned |-> first @@ [overall_precision |-> overall_precision]]
                 ELSE LET overall_recall == Rat(total_hits, total_ground_truth)
                      IN  [error |-> "none",
                           assigned |-> first @@
                               [overall_precision |-> overall_precision,
                                overall_recall |-> overall_recall,
                                overall_f1 |-> F1(overall_precision, overall_recall),
                                avg_f1 |-> Mean([i \in 1..n |->
                                    F1(rs[i].precision_at_10, rs[i].recall)])]]

\* the same for the cell of the SBERT notebook, which ends with a print of
\* total_semantic_hits / total_exact_hits
OverallMetricsSBERT(rs) ==
    LET n == Len(rs)
        total_semantic_hits == Sum([i \in 1..n |-> rs[i].num_semantic_hits])
        total_exact_hits == Sum([i \in 1..n |-> rs[i].num_exact_hits])
        total_predictions == n * PredictionsPerClip
        total_ground_truth == Sum([i \in 1..n |-> Len(rs[i].ground_truth_tags)])
        first == [total_semantic_hits |-> total_semantic_hits,
                  total_exact_hits |-> total_exact_hits,
                  total_predictions |-> total_predictions,
                  total_ground_truth |-> total_ground_truth,
                  avg_precision_at_10 |-> Mean([i \in 1..n |-> rs[i].precision_at_10]),
                  avg_recall |-> Mean([i \in 1..n |-> rs[i].recall]),
                  avg_semantic_hits_per_clip |->
                      Mean([i \in 1..n |-> <<rs[i].num_semantic_hits, 1>>]),
                  avg_exact_hits_per_clip |->
                      Mean([i \in 1..n |-> <<rs[i].num_exact_hits, 1>>])]
    IN  IF total_predictions = 0
        THEN [error |-> "ZeroDivisionError", assigned |-> first]
        ELSE LET overall_precision == Rat(total_semantic_hits, total_predictions)
             IN  IF total_ground_truth = 0
                 THEN [error |-> "ZeroDivisionError",
                       assigned |-> first @@ [overall_precision |-> overall_precision]]
                 ELSE LET overall_recall == Rat(total_semantic_hits, total_ground_truth)
                      IN  [error |-> IF total_exact_hits = 0
                                     THEN "ZeroDivisionError" ELSE "none",
                           assigned |-> first @@
                               [overall_precision |-> overall_precision,
                                overall_recall |-> overall_recall,
                                overall_f1 |-> F1(overall_precision, overall_recall),
                                avg_f1 |-> Mean([i \in 1..n |-> rs[i].f1_score])]]

\* baseline and DF notebooks
ComputeOverallMetrics ==
    /\ pc \in {"eval_baseline", "eval_df"}
    /\ clip > Len(filtered_pairs)
    /\ LET m == OverallMetrics(results)
       IN  /\ overall' = m.assigned
           /\ error' = m.error
    /\ pc' = IF pc = "eval_baseline" THEN "overall_baseline" ELSE "overall_df"
    /\ UNCHANGED <<scored, summary, skips_reported>>
    /\ UNCHANGED <<dfVars, evalVars, sbertVars>>
    /\ UNCHANGED <<loadVars, prepVars>>

\* SBERT notebook
ComputeOverallMetricsSBERT ==
    /\ pc = "eval_sbert"
    /\ clip > Len(filtered_pairs)
    /\ LET m == OverallMetricsSBERT(results)
       IN  /\ overall' = m.assigned
           /\ error' = m.error
    /\ pc' = "overall_sbert"
    /\ UNCHANGED <<scored, summary, skips_reported>>
    /\ UNCHANGED <<dfVars, evalVars, sbertVars>>
    /\ UNCHANGED <<loadVars, prepVars>>

\* the dict built by "d[num] = d.get(num, 0) + 1" over the results
HitsDistribution(counts) ==
    [h \in Range(counts) |-> Cardinality({i \in 1..Len(counts) : counts[i] = h})]

\* min(...) and max(...) of a list of floats
MinOf(xs) == CHOOSE x \in Range(xs) : \A y \in Range(xs) : RLe(x, y)
MaxOf(xs) == CHOOSE x \in Range(xs) : \A y \in Range(xs) : RLe(y, x)

\* 'df_stats' of the summary, without std_df_score
DFStats ==
    LET df_scores_values ==
            [i \in 1..Len(clap_tags) |-> tag_df_scores[clap_tags[i]]]
    IN  [matched_tags |-> matched_tags,
         unmatched_tags |-> unmatched_tags,
         min_df_score |-> MinOf(df_scores_values),
         max_df_score |-> MaxOf(df_scores_values),
         mean_df_score |-> Mean(df_scores_values)]

\* the summary dict of the baseline notebook
Summary ==
    [model |-> "CLAP Zero-Shot",
     num_clips |-> Len(results),
     total_hits |-> overall.total_hits,
     total_predictions |-> overall.total_predictions,
     total_ground_truth |-> overall.total_ground_truth,
     avg_precision_at_10 |-> overall.avg_precision_at_10,
     avg_recall |-> overall.avg_recall,
     avg_f1_score |-> overall.avg_f1,
     avg_hits_per_clip |-> overall.avg_hits_per_clip,
     overall_precision |-> overall.overall_precision,
     overall_recall |-> overall.overall_recall,
     overall_f1_score |-> overall.overall_f1,
     hits_distribution |->
         HitsDistribution([i \in 1..Len(results) |-> results[i].num_hits])]

\* the summary dict of the DF notebook
SummaryDF ==
    [Summary EXCEPT !.model = "CLAP DF-Weighted"] @@
    [alpha |-> ALPHA, df_stats |-> DFStats]

\* the summary dict of the SBERT notebook
SummarySBERT ==
    [model |-> "CLAP DF-Weighted with SBERT",
     alpha |-> ALPHA,
     sbert_threshold |-> SIMILARITY_THRESHOLD,
     sbert_model |-> "all-MiniLM-L6-v2",
     num_clips |-> Len(results),
     total_semantic_hits |-> overall.total_semantic_hits,
     total_exact_hits |-> overall.total_exact_hits,
     total_predictions |-> overall.total_predictions,
     total_ground_truth |-> overall.total_ground_truth,
     avg_precision_at_10 |-> overall.avg_precision_at_10,
     avg_recall |-> overall.avg_recall,
     avg_f1_score |-> overall.avg_f1,
     avg_semantic_hits_per_clip |-> overall.avg_semantic_hits_per_clip,
     avg_exact_hits_per_clip |-> overall.avg_exact_hits_per_clip,
     overall_precision |-> overall.overall_precision,
     overall_recall |-> overall.overall_recall,
     overall_f1_score |-> overall.overall_f1,
     semantic_hits_distribution |->
         HitsDistribution([i \in 1..Len(results) |-> results[i].num_semantic_hits]),
     exact_hits_distribution |->
         HitsDistribution([i \in 1..Len(results) |-> results[i].num_exact_hits]),
     improvement_over_exact |->
         IF overall.total_exact_hits > 0
         THEN RMul(RSub(Rat(overall.total_semantic_hits, overall.total_exact_hits), One),
                   <<100, 1>>)
         ELSE Zero,
     df_stats |-> DFStats]

\* the save cell; a run stops at the first cell that raises
SaveResults ==
    /\ pc \in {"overall_baseline", "overall_df", "overall_sbert"}
    /\ error = "none"
    /\ summary' = CASE pc = "overall_baseline" -> Summary
                    [] pc = "overall_df" -> SummaryDF
                    [] pc = "overall_sbert" -> SummarySBERT
    /\ pc' = "saved"
    /\ UNCHANGED <<error, scored, overall, skips_reported>>
    /\ UNCHANGED <<dfVars, evalVars, sbertVars>>
    /\ UNCHANGED <<loadVars, prepVars>>

----------------------------------------------------------------------------
(* Inputs of the evaluation loop *)

\* a vocabulary larger than the cutoff of 10
EvalTags ==
    << <<"a">>, <<"B">>, <<"c">>, <<"d">>, <<"e">>, <<"f">>,
       <<"g">>, <<"h">>, <<"i">>, <<"j">>, <<"k">>, <<"l">> >>

Directions ==
    << <<3, 4>>, <<4, 3>>, <<5, 0>>, <<0, 5>>, <<-3, 4>>, <<3, -4>>,
       <<-4, 3>>, <<4, -3>>, <<-3, -4>>, <<-4, -3>>, <<-5, 0>>, <<0, -5>> >>

\* tag i gets direction s + i (cyclically) and three further variants
EvalEmbeddings(s) ==
    [i \in 1..Len(EvalTags) |->
        [tag |-> EvalTags[i],
         embeds |-> << Directions[((i + s) % 12) + 1],
                       <<0, 0>>,
                       Directions[((i + s + 6) % 12) + 1],
                       Directions[((i + s) % 12) + 1] >>]]

\* a weight table as the DF mapping cell builds one with ALPHA = 0.7
EvalDFScores ==
    [t \in Range(EvalTags) |->
        IF t \in {<<"a">>, <<"e">>, <<"i">>} THEN One
        ELSE IF t \in {<<"B">>, <<"f">>, <<"j">>, <<"k">>} THEN <<13, 20>>
        ELSE <<3, 10>>]

EvalAudioEmbeddings ==
    (1 :> <<3, 4>>) @@ (2 :> <<5, 0>>) @@ (3 :> <<0, 0>>) @@ (4 :> <<-4, 3>>) @@
    (6 :> <<0, 5>>)

\* input/ground-truth pairs; clip 5 has no audio embedding
Pairs ==
    { [sound_id |-> 1, title |-> "t1",
       ground_truth_tags |-> << <<"A">>, <<"d">>, <<"z">> >>],
      [sound_id |-> 2, title |-> "t2",
       ground_truth_tags |-> << <<"b">>, <<"l">>, <<"k">> >>],
      [sound_id |-> 3, title |-> "t3",
       ground_truth_tags |-> << >>],
      [sound_id |-> 4, title |-> "t4",
       ground_truth_tags |-> << <<"B">>, <<"b">>, <<"c">>, <<"h">> >>],
      [sound_id |-> 5, title |-> "t5",
       ground_truth_tags |-> << <<"a">> >>],
      [sound_id |-> 6, title |-> "t6",
       ground_truth_tags |->
           << <<"a">>, <<"B">>, <<"e">>, <<"x">>, <<"y">>, <<"z">> >>] }

\* sbert_model.encode: the phrase embedding of a lowercased tag
SbertEncode ==
    (<<"a">> :> <<3, 4>>) @@ (<<"b">> :> <<4, 3>>) @@ (<<"c">> :> <<5, 0>>) @@
    (<<"d">> :> <<0, 5>>) @@ (<<"e">> :> <<-3, 4>>) @@ (<<"f">> :> <<3, -4>>) @@
    (<<"g">> :> <<-4, 3>>) @@ (<<"h">> :> <<4, -3>>) @@ (<<"i">> :> <<-3, -4>>) @@
    (<<"j">> :> <<-4, -3>>) @@ (<<"k">> :> <<-5, 0>>) @@ (<<"l">> :> <<0, -5>>) @@
    (<<"x">> :> <<0, -5>>) @@ (<<"y">> :> <<-5, 0>>) @@ (<<"z">> :> <<3, 4>>) @@
    (<<"d", "r", "u", "m">> :> <<20, 0, 0, 0, 0>>) @@
    (<<"d", "r", "u", "m", "s">> :> <<19, 5, 3, 2, 1>>) @@
    (<<"v", "o", "i", "c", "e">> :> <<0, 20, 0, 0, 0>>) @@
    (<<"v", "o", "c", "a", "l">> :> <<1, 17, 10, 3, 1>>) @@
    (<<"b", "e", "a", "t">> :> <<0, 0, 0, 0, 20>>)

\* the encoding cell: every lowercased ground-truth and vocabulary tag
\* EncodeTags collecting the ground-truth tags of the first clip only
EncodeTagsFirstClip(pairs, vocabulary) ==
    LET all_gt_tags ==
            UNION { {Lower(pairs[n].ground_truth_tags[i]) :
                        i \in 1..Len(pairs[n].ground_truth_tags)} :
                    n \in (DOMAIN pairs) \cap {1} }
        all_unique_tags ==
            all_gt_tags \cup {Lower(vocabulary[i]) : i \in 1..Len(vocabulary)}
    IN  [t \in all_unique_tags |-> SbertEncode[t]]

EncodeTags(pairs, vocabulary) ==
    LET all_gt_tags ==
            UNION { {Lower(p.ground_truth_tags[i]) : i \in 1..Len(p.ground_truth_tags)} :
                    p \in Range(pairs) }
        all_unique_tags ==
            all_gt_tags \cup {Lower(vocabulary[i]) : i \in 1..Len(vocabulary)}
    IN  [t \in all_unique_tags |-> SbertEncode[t]]

\* a run over a vocabulary of three tags and one clip
ScenarioTags == << <<"d", "r", "u", "m">>, <<"b", "e", "a", "t">>, <<"v", "o", "i", "c", "e">> >>

ScenarioEmbeddings ==
    << [tag |-> ScenarioTags[1],
        embeds |-> << <<3, 4>>, <<4, 3>>, <<3, 4>>, <<0, 5>> >>],
       [tag |-> ScenarioTags[2],
        embeds |-> << <<4, 3>>, <<4, 3>>, <<5, 0>>, <<0, 0>> >>],
       [tag |-> ScenarioTags[3],
        embeds |-> << <<5, 0>>, <<5, 0>>, <<4, -3>>, <<5, 0>> >>] >>

ScenarioPair ==
    [sound_id |-> 7, title |-> "t7",
     ground_truth_tags |-> << <<"d", "r", "u", "m", "s">>, <<"v", "o", "c", "a", "l">> >>]

InitEval ==
    /\ pc \in {"eval_baseline", "eval_df", "eval_sbert"}
    /\ metadata_df = <<>>
    /\ \/ /\ clap_tags = EvalTags
          /\ tag_embeddings \in {EvalEmbeddings(0), EvalEmbeddings(5)}
          /\ audio_embeddings = EvalAudioEmbeddings
          /\ filtered_pairs \in SeqsOf(Pairs, 0, MaxClips)
          /\ tag_df_scores = IF pc = "eval_baseline" THEN EmptyDict ELSE EvalDFScores
          /\ SIMILARITY_THRESHOLD \in
                 IF pc = "eval_sbert" THEN Thresholds ELSE { <<7, 10>> }
       \/ /\ pc = "eval_sbert"
          /\ clap_tags = ScenarioTags
          /\ tag_embeddings = ScenarioEmbeddings
          /\ audio_embeddings = (7 :> <<3, 4>>)
          /\ filtered_pairs = <<ScenarioPair>>
          /\ tag_df_scores = [t \in Range(ScenarioTags) |-> One]
          /\ SIMILARITY_THRESHOLD = <<7, 10>>
    /\ total_documents = 0
    /\ tag_document_counts = EmptyDict
    /\ row = 0
    /\ ALPHA = <<7, 10>>
    /\ matched_tags = 0
    /\ unmatched_tags = 0
    /\ error = "none"
    /\ scored = NoCall
    /\ clip = 1
    /\ results = <<>>
    /\ tag_to_sbert = IF pc = "eval_sbert"
                      THEN EncodeTags(filtered_pairs, clap_tags)
                      ELSE EmptyDict
    /\ semantic = NoCall
    /\ overall = EmptyDict
    /\ summary = EmptyDict
    /\ skips_reported = 0
    /\ tag_embeddings_hyphen_npy = <<>>
    /\ tag_embeddings_array = <<>>
    /\ valid_tags = {}
    /\ filtered_df = <<>>
    /\ final_df = <<>>
    /\ test_data = <<>>

NextEval ==
    \/ EvaluateClipBaseline
    \/ EvaluateClipDF
    \/ EvaluateClipSBERT
    \/ ComputeOverallMetrics
    \/ ComputeOverallMetricsSBERT
    \/ SaveResults

SpecEval == InitEval /\ [][NextEval]_vars

----------------------------------------------------------------------------
(* Properties of the DF pipeline *)

\* the maximal comma-free pieces of s, found by position
Pieces(s) ==
    { SubSeq(s, p[1], p[2]) :
        p \in { q \in (1..(Len(s) + 1)) \X (0..Len(s)) :
                  /\ q[1] <= q[2] + 1
                  /\ (q[1] = 1 \/ s[q[1] - 1] = ",")
                  /\ (q[2] = Len(s) \/ s[q[2] + 1] = ",")
                  /\ \A k \in q[1]..q[2] : s[k] # "," } }

\* the document carries tag t, compared after trimming and lowercasing
Occurs(t, doc) == \E p \in Pieces(doc) : Lower(Strip(p)) = t

\* number of the first n documents that carry t
DocFreq(t, n) == Cardinality({i \in 1..n : Occurs(t, metadata_df[i])})

CountOf(t) == IF t \in DOMAIN tag_document_counts THEN tag_document_counts[t] ELSE 0

Mapped == pc = "mapped" /\ error = "none"

\* C1: for every alpha and every vocabulary tag that, lowercased, occurs in
\* no document of the corpus, the DF weight is exactly 1 - alpha.
C1_UnseenTagWeight ==
    Mapped =>
        \A t \in Range(clap_tags) :
            DocFreq(Lower(t), Len(metadata_df)) = 0
                => tag_df_scores[t] = RSub(One, ALPHA)

C1_Witness ==
    /\ Mapped
    /\ total_documents >= 2
    /\ ALPHA = <<7, 10>>
    /\ \E t \in Range(clap_tags) :
          /\ DocFreq(Lower(t), Len(metadata_df)) = 0
          /\ tag_df_scores[t] = <<3, 10>>
    /\ \E t \in Range(clap_tags) : DocFreq(Lower(t), Len(metadata_df)) > 0

\* C2: with at least one document, every DF weight lies in [1 - alpha, 1],
\* and no tag's document count exceeds the number of documents.
C2_WeightRange ==
    /\ pc \in {"counting", "mapped"} =>
          \A t \in DOMAIN tag_document_counts :
              tag_document_counts[t] <= total_documents
    /\ (Mapped /\ total_documents >= 1) =>
          \A t \in Range(clap_tags) :
              /\ RLe(RSub(One, ALPHA), tag_df_scores[t])
              /\ RLe(tag_df_scores[t], One)

C2_Witness ==
    /\ Mapped
    /\ total_documents >= 2
    /\ ALPHA = <<7, 10>>
    /\ \E t \in Range(clap_tags) :
          /\ CountOf(Lower(t)) = total_documents
          /\ tag_df_scores[t] = One
    /\ \E t \in Range(clap_tags) :
          /\ RLt(RSub(One, ALPHA), tag_df_scores[t])
          /\ RLt(tag_df_scores[t], One)
    /\ \E i \in 1..Len(metadata_df) :
          \E j, k \in 1..Len(RowTags(metadata_df[i])) :
              j # k /\ RowTags(metadata_df[i])[j] = RowTags(metadata_df[i])[k]

\* C3: with alpha = 0 every DF weight is 1, whatever the document frequency.
C3_AlphaZero ==
    (Mapped /\ ALPHA = Zero) =>
        \A t \in Range(clap_tags) : tag_df_scores[t] = One

C3_Witness ==
    /\ Mapped
    /\ ALPHA = Zero
    /\ \E t \in Range(clap_tags) : CountOf(Lower(t)) = 0
    /\ \E t \in Range(clap_tags) :
          CountOf(Lower(t)) > 0 /\ CountOf(Lower(t)) < total_documents
    /\ \A t \in Range(clap_tags) : tag_df_scores[t] = One

\* C4: mapping the DF weights against a corpus of zero documents raises an
\* error; no weight is returned for any tag.
C4_ZeroDocsFailFast ==
    (pc = "mapped" /\ total_documents = 0) =>
        (error # "none" /\ tag_df_scores = EmptyDict)

\* C5: a tag's count is the number of documents carrying it at least once,
\* compared case-insensitively after trimming; N is the number of documents
\* processed.
C5_CountIsDocFreq ==
    pc \in {"counting", "mapped"} =>
        /\ \A t \in (DOMAIN tag_document_counts)
                     \cup UNION {Range(RowTags(d)) : d \in Range(metadata_df)}
                     \cup {Lower(t) : t \in Range(clap_tags)} :
               CountOf(t) = DocFreq(t, row - 1)
        /\ (row > Len(metadata_df) => total_documents = row - 1)

C5_Witness ==
    /\ pc = "counting"
    /\ row = 4
    /\ metadata_df[1] = <<"A", ",", " ", "a">>
    /\ metadata_df[2] = <<" ", "b", " ", ",", "B", ",", "c">>
    /\ metadata_df[3] = <<"a", ",", "b">>
    /\ tag_document_counts = (<<"a">> :> 2) @@ (<<"b">> :> 2) @@ (<<"c">> :> 1)
    /\ total_documents = 3

\* the set of normalised tags of one document
TagSet(doc) == {Lower(Strip(p)) : p \in Pieces(doc)}

\* the corpus of three documents with the tag sets {a, b}, {a, c} and {a}
IsScenarioCorpus ==
    /\ Len(metadata_df) = 3
    /\ \E i, j, k \in 1..3 :
          /\ {i, j, k} = 1..3
          /\ TagSet(metadata_df[i]) = {<<"a">>, <<"b">>}
          /\ TagSet(metadata_df[j]) = {<<"a">>, <<"c">>}
          /\ TagSet(metadata_df[k]) = {<<"a">>}

\* C17: for the corpus {a, b}, {a, c}, {a} the counts are DF(a) = 3,
\* DF(b) = DF(c) = 1 with N = 3, and with alpha = 0.7 the weights are
\* weight(a) = 1.0 and weight(b) = weight(c) = 0.65.
C17_DFScenario ==
    (Mapped /\ IsScenarioCorpus) =>
        /\ total_documents = 3
        /\ CountOf(<<"a">>) = 3
        /\ CountOf(<<"b">>) = 1
        /\ CountOf(<<"c">>) = 1
        /\ ALPHA = <<7, 10>> =>
              \A t \in Range(clap_tags) :
                  /\ Lower(t) = <<"a">> => tag_df_scores[t] = One
                  /\ Lower(t) \in {<<"b">>, <<"c">>} => tag_df_scores[t] = <<13, 20>>

\* the scenario with a, b and c in the vocabulary and a document written
\* with upper case and a space
C17_Witness ==
    /\ Mapped
    /\ IsScenarioCorpus
    /\ ALPHA = <<7, 10>>
    /\ clap_tags = << <<"a">>, <<"b">>, <<"c">> >>
    /\ <<"A", ",", " ", "a">> \in Range(metadata_df)
    /\ tag_df_scores[<<"a">>] = One
    /\ tag_df_scores[<<"b">>] = <<13, 20>>
    /\ tag_df_scores[<<"c">>] = <<13, 20>>

----------------------------------------------------------------------------
(* Properties of the scorer *)

Returned == pc = "returned" /\ scored.kind \in {"baseline", "df"}

\* position of a tag in the vocabulary (the insertion order of the dict)
VocabIndex(t) == CHOOSE i \in 1..Len(scored.embeddings) : scored.embeddings[i].tag = t

\* the largest cosine similarity between the audio and the variants of entry i
MaxCosine(i) ==
    LET cs == { CosineSimilarity(scored.audio_embedding, scored.embeddings[i].embeds[j]) :
                  j \in 1..Len(scored.embeddings[i].embeds) }
    IN  CHOOSE c \in cs : \A d \in cs : RLe(d, c)

\* the weight the claim gives entry i: the table's, or 1.0 when it has none
WeightOf(i) ==
    IF scored.kind = "baseline" THEN One
    ELSE IF scored.embeddings[i].tag \in DOMAIN scored.df_scores
         THEN scored.df_scores[scored.embeddings[i].tag]
         ELSE One

FinalScore(i) == RMul(MaxCosine(i), WeightOf(i))

LeftOut == { i \in 1..Len(scored.embeddings) :
                scored.embeddings[i].tag \notin Range(scored.top_tags) }

\* C6: the scorer returns exactly min(K, vocabulary size) tags, none of them
\* twice.
C6_LengthAndDistinct ==
    Returned =>
        /\ Len(scored.top_tags) = Min(scored.top_k, Len(scored.embeddings))
        /\ Len(scored.top_scores) = Len(scored.top_tags)
        /\ \A i, j \in 1..Len(scored.top_tags) :
               i # j => scored.top_tags[i] # scored.top_tags[j]

C6_Witness ==
    /\ Returned
    /\ scored.top_k = 2
    /\ Len(scored.embeddings) = 3
    /\ Len(scored.top_tags) = 2
    /\ scored.top_scores[1] = scored.top_scores[2]

\* C7: the returned scores are non-increasing in rank order and no tag left
\* out of the top K has a final score above the last returned score; with DF
\* weighting this is the weighted score.
C7_NonIncreasing ==
    Returned =>
        /\ \A i \in 1..(Len(scored.top_scores) - 1) :
               RLe(scored.top_scores[i + 1], scored.top_scores[i])
        /\ \A i \in LeftOut :
               scored.top_scores # <<>> =>
                   RLe(FinalScore(i), scored.top_scores[Len(scored.top_scores)])

C7_Witness ==
    /\ Returned
    /\ scored.kind = "df"
    /\ Len(scored.top_tags) = 2
    /\ LeftOut # {}
    /\ RLt(scored.top_scores[2], scored.top_scores[1])
    /\ RLt(scored.top_base_scores[1], scored.top_base_scores[2])
    /\ \E i \in LeftOut : RLt(scored.top_base_scores[1], MaxCosine(i))

\* C8: tags of equal final score are ranked in vocabulary order, also across
\* the top-K cut.
C8_TiesInVocabularyOrder ==
    Returned =>
        /\ \A i, j \in 1..Len(scored.top_tags) :
               (i < j /\ scored.top_scores[i] = scored.top_scores[j])
                   => VocabIndex(scored.top_tags[i]) < VocabIndex(scored.top_tags[j])
        /\ \A i \in LeftOut : \A j \in 1..Len(scored.top_tags) :
               FinalScore(i) = scored.top_scores[j]
                   => VocabIndex(scored.top_tags[j]) < i

C8_Witness ==
    /\ Returned
    /\ Len(scored.top_tags) = 2
    /\ scored.top_scores[1] = scored.top_scores[2]
    /\ scored.kind = "df"
    /\ scored.top_base_scores[1] # scored.top_base_scores[2]
    /\ \E i \in LeftOut : FinalScore(i) = scored.top_scores[2]

\* C9: the final score of a tag is the maximum of the cosine similarities of
\* its variants, times its DF weight when weights are supplied (1.0 for a tag
\* missing from the table); without weights it is the maximum itself.
C9_MaxTimesWeight ==
    Returned =>
        \A r \in 1..Len(scored.top_tags) :
            LET i == VocabIndex(scored.top_tags[r])
            IN  IF scored.kind = "df"
                THEN /\ scored.top_base_scores[r] = MaxCosine(i)
                     /\ scored.top_df_weights[r] = WeightOf(i)
                     /\ scored.top_scores[r] =
                            RMul(MaxCosine(i), scored.top_df_weights[r])
                ELSE scored.top_scores[r] = MaxCosine(i)

C9_Witness ==
    /\ Returned
    /\ scored.kind = "df"
    /\ \E r \in 1..Len(scored.top_tags) :
          /\ scored.top_tags[r] \notin DOMAIN scored.df_scores
          /\ scored.top_df_weights[r] = One
          /\ scored.top_scores[r] = <<4, 5>>
    /\ \E r \in 1..Len(scored.top_tags) :
          /\ scored.top_tags[r] \in DOMAIN scored.df_scores
          /\ scored.top_df_weights[r] = <<3, 10>>
          /\ scored.top_base_scores[r] = One
          /\ scored.top_scores[r] = <<3, 10>>

----------------------------------------------------------------------------
(* Properties of the evaluation loop *)

\* the pair a result record was computed from
PairOf(r) == CHOOSE p \in Range(filtered_pairs) : p.sound_id = r.sound_id

LoweredSet(tags) == {Lower(tags[i]) : i \in 1..Len(tags)}

\* the exact hits of a result record: 'hits' of the baseline and DF
\* notebooks, 'exact_hits' of the SBERT notebook
ExactHitsOf(r) == IF "hits" \in DOMAIN r THEN r.hits ELSE r.exact_hits

NumExactHitsOf(r) == IF "hits" \in DOMAIN r THEN r.num_hits ELSE r.num_exact_hits

\* C10: in exact mode a predicted tag is a hit iff its lowercased form is in
\* the lowercased ground-truth set; the hit set is the intersection of the
\* lowercased predictions and the lowercased ground-truth tags.
C10_ExactHits ==
    \A n \in 1..Len(results) :
        LET r == results[n]
            gt == LoweredSet(PairOf(r).ground_truth_tags)
        IN  /\ \A i \in 1..Len(r.predicted_tags) :
                   Lower(r.predicted_tags[i]) \in ExactHitsOf(r)
                       <=> Lower(r.predicted_tags[i]) \in gt
            /\ ExactHitsOf(r) = LoweredSet(r.predicted_tags) \cap gt
            /\ NumExactHitsOf(r) = Cardinality(ExactHitsOf(r))

C10_Witness ==
    \E n \in 1..Len(results) :
        LET r == results[n]
        IN  /\ "hits" \in DOMAIN r
            /\ <<"B">> \in Range(r.predicted_tags)
            /\ <<"B">> \in Range(PairOf(r).ground_truth_tags)
            /\ <<"b">> \in r.hits
            /\ \E t \in Range(r.ground_truth_tags) :
                  /\ t \notin r.hits
                  /\ t \in LoweredSet(EvalTags)
            /\ \E i \in 1..Len(r.predicted_tags) :
                  Lower(r.predicted_tags[i]) \notin r.hits

----------------------------------------------------------------------------
(* Properties of compute_semantic_hits *)

SemReturned == pc = "returned" /\ semantic.kind = "semantic"

SemPredicted ==
    [i \in 1..Len(semantic.predicted_tags) |-> Lower(semantic.predicted_tags[i])]

SemGroundTruth ==
    [i \in 1..Len(semantic.ground_truth_tags) |-> Lower(semantic.ground_truth_tags[i])]

\* the ground-truth tags that have a phrase embedding
EmbeddedGroundTruth ==
    {g \in Range(SemGroundTruth) : g \in DOMAIN semantic.tag_to_sbert}

PhraseSimilarity(p, g) ==
    CosineSimilarity(semantic.tag_to_sbert[p], semantic.tag_to_sbert[g])

\* the largest similarity of p with a ground-truth phrase reaches the threshold
ReachesThreshold(p) ==
    /\ p \in DOMAIN semantic.tag_to_sbert
    /\ \E g \in EmbeddedGroundTruth :
          RLe(semantic.similarity_threshold, PhraseSimilarity(p, g))

\* C11: a predicted tag is a semantic hit iff the largest cosine similarity
\* between its phrase embedding and the ground-truth phrase embeddings is at
\* or above the threshold; every hit has exactly one match record, holding the
\* predicted tag, a ground-truth tag that attains the largest similarity, and
\* that similarity.
C11_SemanticHits ==
    SemReturned =>
        /\ semantic.hits = SelectSeq(SemPredicted, ReachesThreshold)
        /\ Len(semantic.semantic_matches) = Len(semantic.hits)
        /\ \A k \in 1..Len(semantic.semantic_matches) :
              LET m == semantic.semantic_matches[k]
              IN  /\ m.predicted = semantic.hits[k]
                  /\ m.matched_gt \in EmbeddedGroundTruth
                  /\ m.similarity = PhraseSimilarity(m.predicted, m.matched_gt)
                  /\ \A g \in EmbeddedGroundTruth :
                        RLe(PhraseSimilarity(m.predicted, g), m.similarity)

----------------------------------------------------------------------------
(* Properties of the evaluation loop with semantic matching *)

IsSBERTResult(r) == "semantic_hits" \in DOMAIN r

----------------------------------------------------------------------------
(* Properties of the per-clip metrics, in exact and semantic mode *)

\* the number of hits the metrics of a result record are computed from
HitCountOf(r) ==
    IF IsSBERTResult(r) THEN Len(r.semantic_hits) ELSE Cardinality(r.hits)

InLoop == pc \in {"eval_baseline", "eval_df", "eval_sbert"}

\* C14: a clip with an empty ground-truth set has recall exactly 0, in exact
\* and in semantic mode alike; computing its metrics raises no error and
\* yields no NaN.
C14_EmptyGroundTruthRecall ==
    /\ InLoop => error = "none"
    /\ \A n \in 1..Len(results) :
          LET r == results[n]
          IN  r.ground_truth_tags = <<>> =>
                  /\ r.recall = Zero
                  /\ r.precision_at_10 # NaN /\ r.precision_at_10[2] > 0
                  /\ r.f1_score # NaN /\ r.f1_score[2] > 0

\* the loop has stored the record of a clip without ground-truth tags and gone
\* on to the next clip
C14_Witness ==
    /\ InLoop
    /\ clip > 2
    /\ Len(results) = 2
    /\ PairOf(results[1]).ground_truth_tags = <<>>
    /\ results[1].ground_truth_tags = <<>>
    /\ Len(results[1].predicted_tags) = EvalTopK

\* C15: the F1 of a clip is 0 when precision + recall = 0 and
\* 2 * P * R / (P + R) otherwise; 3 hits with K = 10 and 6 ground-truth tags
\* give precision 0.3, recall 0.5 and F1 0.375.
C15_F1 ==
    \A n \in 1..Len(results) :
        LET r == results[n]
            P == r.precision_at_10
            R == r.recall
        IN  /\ IF RAdd(P, R) = Zero
               THEN r.f1_score = Zero
               ELSE RMul(r.f1_score, RAdd(P, R)) = RMul(<<2, 1>>, RMul(P, R))
            /\ (HitCountOf(r) = 3 /\ EvalTopK = 10 /\ Len(r.ground_truth_tags) = 6)
                  => /\ P = <<3, 10>>
                     /\ R = <<1, 2>>
                     /\ r.f1_score = <<3, 8>>

\* a run holds the clip of the example and a clip with precision + recall = 0
C15_Witness ==
    /\ \E n \in 1..Len(results) :
          LET r == results[n]
          IN  /\ HitCountOf(r) = 3
              /\ Len(r.ground_truth_tags) = 6
              /\ r.f1_score = <<3, 8>>
    /\ \E n \in 1..Len(results) :
          LET r == results[n]
          IN  /\ HitCountOf(r) = 0
              /\ RAdd(r.precision_at_10, r.recall) = Zero
              /\ r.f1_score = Zero

----------------------------------------------------------------------------
(* The end-to-end semantic scenario *)

Drum == <<"d", "r", "u", "m">>
Beat == <<"b", "e", "a", "t">>
Voice == <<"v", "o", "i", "c", "e">>
Drums == <<"d", "r", "u", "m", "s">>
Vocal == <<"v", "o", "c", "a", "l">>

PhraseCosine(s, t) == CosineSimilarity(tag_to_sbert[s], tag_to_sbert[t])

\* the record of a clip with the scenario's predictions, ground truth,
\* threshold and phrase similarities
IsScenarioResult(r) ==
    /\ IsSBERTResult(r)
    /\ r.predicted_tags = <<Drum, Beat, Voice>>
    /\ r.ground_truth_tags = <<Drums, Vocal>>
    /\ SIMILARITY_THRESHOLD = <<7, 10>>
    /\ PhraseCosine(Drum, Drums) = <<19, 20>>
    /\ PhraseCosine(Voice, Vocal) = <<17, 20>>
    /\ \A g \in {Drums, Vocal} : RLt(PhraseCosine(Beat, g), <<1, 2>>)

\* C16: with predictions [drum, beat, voice], ground truth [drums, vocal],
\* threshold 0.7 and phrase similarities drum-drums 0.95, voice-vocal 0.85 and
\* beat-anything below 0.5, the semantic hits are {drum, voice}, the exact
\* hits are empty, precision@3 is 2/3, recall is 1.0 and F1 is 0.8.
C16_SemanticScenario ==
    \A n \in 1..Len(results) :
        LET r == results[n]
        IN  IsScenarioResult(r) =>
                /\ Range(r.semantic_hits) = {Drum, Voice}
                /\ r.exact_hits = {}
                /\ r.precision_at_10 = <<2, 3>>
                /\ r.recall = One
                /\ r.f1_score = <<4, 5>>

----------------------------------------------------------------------------
(* Skipped clips and skipped tags *)

\* the clips the loop has passed that have no audio embedding
SkippedClips ==
    {i \in 1..Min(clip - 1, Len(filtered_pairs)) :
        filtered_pairs[i].sound_id \notin DOMAIN audio_embeddings}

\* C18: a clip without an audio embedding is skipped without failing the
\* run and produces no result record, and the number of skipped clips is
\* counted and reported alongside the final metrics of the run.
C18_SkippedClipsReported ==
    /\ InLoop => error = "none"
    /\ \A n \in 1..Len(results) : results[n].sound_id \in DOMAIN audio_embeddings
    /\ InLoop => Len(results) + Cardinality(SkippedClips) = clip - 1
    /\ pc = "saved" => skips_reported = Cardinality(SkippedClips)

\* the tags of the last call that have no phrase embedding
SkippedTags ==
    {t \in Range(SemPredicted) \cup Range(SemGroundTruth) :
        t \notin DOMAIN semantic.tag_to_sbert}

\* C19: in semantic mode a predicted or ground-truth tag without a phrase
\* embedding is neither a hit nor a match, and every such skip is logged or
\* counted so that it is visible in the run's output.
C19_SkippedTagsReported ==
    SemReturned =>
        /\ \A t \in SkippedTags :
              /\ t \notin Range(semantic.hits)
              /\ \A k \in 1..Len(semantic.semantic_matches) :
                    /\ semantic.semantic_matches[k].predicted # t
                    /\ semantic.semantic_matches[k].matched_gt # t
        /\ SkippedTags # {} => skips_reported > 0

----------------------------------------------------------------------------
(* Properties of the run-level aggregates *)

RECURSIVE TotalHitsUpTo(_)
TotalHitsUpTo(n) ==
    IF n = 0 THEN 0 ELSE TotalHitsUpTo(n - 1) + HitCountOf(results[n])

RECURSIVE TotalGroundTruthUpTo(_)
TotalGroundTruthUpTo(n) ==
    IF n = 0 THEN 0
    ELSE TotalGroundTruthUpTo(n - 1) + Len(results[n].ground_truth_tags)

\* the sum over the clips of one per-clip metric
RECURSIVE MetricSumUpTo(_, _)
MetricSumUpTo(field, n) ==
    IF n = 0 THEN Zero ELSE RAdd(MetricSumUpTo(field, n - 1), results[n][field])

\* x is the mean of the per-clip metric over all evaluated clips
IsMacroAverage(x, field) ==
    RMul(x, <<Len(results), 1>>) = MetricSumUpTo(field, Len(results))

\* C20: the total prediction count is the number of evaluated clips times K;
\* micro precision is total hits / total predictions and micro recall is
\* total hits / total ground-truth tags; macro precision, recall and F1 are
\* the means of the per-clip values; the summary holds both sets.
C20_RunAggregates ==
    pc = "saved" =>
        /\ { "total_predictions", "overall_precision", "overall_recall",
             "avg_precision_at_10", "avg_recall", "avg_f1_score" }
               \subseteq DOMAIN summary
        /\ summary.total_predictions = Len(results) * EvalTopK
        /\ summary.overall_precision =
               Rat(TotalHitsUpTo(Len(results)), summary.total_predictions)
        /\ summary.overall_recall =
               Rat(TotalHitsUpTo(Len(results)), TotalGroundTruthUpTo(Len(results)))
        /\ IsMacroAverage(summary.avg_precision_at_10, "precision_at_10")
        /\ IsMacroAverage(summary.avg_recall, "recall")
        /\ IsMacroAverage(summary.avg_f1_score, "f1_score")

\* a saved run of two clips whose micro and macro recall differ
C20_Witness ==
    /\ pc = "saved"
    /\ Len(results) = 2
    /\ results[1].recall # results[2].recall
    /\ summary.overall_recall # summary.avg_recall
    /\ summary.total_predictions = 20

----------------------------------------------------------------------------
(* Configuration errors *)

InUnitInterval(x) == RLe(Zero, x) /\ RLe(x, One)

\* C21: a run configured with alpha outside [0, 1], a similarity threshold
\* outside [0, 1] or K <= 0 is rejected with a configuration error before any
\* clip is scored; it has no result record and no summary.
C21_ConfigurationRejected ==
    ( \/ ~InUnitInterval(ALPHA)
      \/ ~InUnitInterval(SIMILARITY_THRESHOLD)
      \/ EvalTopK <= 0 )
    => /\ clip > 1 => error # "none"
       /\ results = <<>>
       /\ summary = EmptyDict

----------------------------------------------------------------------------
(* The DF notebook from the DF mapping to the first scored clip:           *)
(* the cell that loads the tag embeddings, then one call of the scorer     *)

MaxLoadDocs == 1    \* documents of the corpus behind the loaded DF table

\* rows of the embeddings file: 4 paraphrase variants of dimension 2 per row
FileRows ==
    << << <<3, 4>>, <<4, 3>>, <<5, 0>>, <<0, 5>> >>,
       << <<0, 10>>, <<0, 5>>, <<-3, -4>>, <<0, 0>> >>,
       << <<-3, -4>>, <<-5, 0>>, <<-3, -4>>, <<-4, -3>> >>,
       << <<4, 3>>, <<4, 3>>, <<0, 5>>, <<3, 4>> >> >>

\* the files the notebook can find: no row, one row fewer than the
\* vocabulary, as many rows, one row more
TagEmbeddingFiles(vocabulary) ==
    { [i \in 1..n |-> FileRows[i]] :
        n \in {0, Len(vocabulary) - 1, Len(vocabulary), Len(vocabulary) + 1} \cap Nat }

\* lines 114-123: the Counter after the loop over the first n rows
RECURSIVE CountRowsUpTo(_, _)
CountRowsUpTo(docs, n) ==
    IF n = 0 THEN EmptyDict
    ELSE CountUnique(CountRowsUpTo(docs, n - 1), RowTags(docs[n]))

\* lines 219-244: np.load, the length comparison, the dict, the prints
LoadTagEmbeddings ==
    /\ pc = "mapped"
    /\ error = "none"
    /\ LET loaded == tag_embeddings_hyphen_npy
           mismatch == Len(clap_tags) # Len(loaded)
           num_tags == IF mismatch THEN Min(Len(clap_tags), Len(loaded))
                       ELSE Len(clap_tags)
           tag_names_list == IF mismatch THEN SubSeq(clap_tags, 1, num_tags)
                             ELSE clap_tags
           array == IF mismatch THEN SubSeq(loaded, 1, num_tags) ELSE loaded
       IN  /\ tag_embeddings_array' = array
           /\ tag_embeddings' =
                  [i \in 1..Len(tag_names_list) |->
                      [tag |-> tag_names_list[i], embeds |-> array[i]]]
           \* list(tag_embeddings.values())[0] of an empty dict
           /\ error' = IF Len(tag_names_list) = 0 THEN "IndexError" ELSE "none"
    /\ pc' = "embeddings_loaded"
    /\ UNCHANGED <<scored, audio_embeddings, filtered_pairs, clip, results,
                   tag_embeddings_hyphen_npy>>
    /\ UNCHANGED dfVars
    /\ UNCHANGED <<sbertVars, reportVars, prepVars>>

\* lines 389-392 of the evaluation loop: the scorer on the loaded tables
ScoreClipDF ==
    /\ pc = "embeddings_loaded"
    /\ error = "none"
    /\ \E audio \in { <<3, 4>>, <<5, 0>> } :
         LET r == GetTagRecommendationsDFWeighted(audio, tag_embeddings,
                                                  tag_df_scores, EvalTopK)
         IN  scored' = [kind |-> "df",
                        audio_embedding |-> audio,
                        embeddings |-> tag_embeddings,
                        df_scores |-> tag_df_scores,
                        top_k |-> EvalTopK,
                        top_tags |-> r.top_tags,
                        top_scores |-> r.top_scores,
                        top_base_scores |-> r.top_base_scores,
                        top_df_weights |-> r.top_df_weights]
    /\ pc' = "scored"
    /\ UNCHANGED error
    /\ UNCHANGED dfVars
    /\ UNCHANGED evalVars
    /\ UNCHANGED <<sbertVars, reportVars>>
    /\ UNCHANGED <<loadVars, prepVars>>

\* the notebook after the DF cells have run on a corpus and a vocabulary
InitLoad ==
    /\ pc = "mapped"
    /\ metadata_df \in SeqsOf(TagStrings, 0, MaxLoadDocs)
    /\ clap_tags \in Vocabularies
    /\ total_documents = Len(metadata_df)
    /\ tag_document_counts = CountRowsUpTo(metadata_df, Len(metadata_df))
    /\ row = Len(metadata_df) + 1
    /\ ALPHA \in Alphas
    /\ tag_df_scores =
           [t \in Range(clap_tags) |->
               DFScore(t, tag_document_counts, total_documents, ALPHA)]
    /\ matched_tags =
           Cardinality({i \in 1..Len(clap_tags) :
               Lower(clap_tags[i]) \in DOMAIN tag_document_counts})
    /\ unmatched_tags =
           Cardinality({i \in 1..Len(clap_tags) :
               Lower(clap_tags[i]) \notin DOMAIN tag_document_counts})
    /\ error = "none"
    /\ scored = NoCall
    /\ tag_embeddings = <<>>
    /\ audio_embeddings = EmptyDict
    /\ filtered_pairs = <<>>
    /\ clip = 0
    /\ results = <<>>
    /\ tag_to_sbert = EmptyDict
    /\ SIMILARITY_THRESHOLD = <<7, 10>>
    /\ semantic = NoCall
    /\ overall = EmptyDict
    /\ summary = EmptyDict
    /\ skips_reported = 0
    /\ tag_embeddings_hyphen_npy \in TagEmbeddingFiles(clap_tags)
    /\ tag_embeddings_array = <<>>
    /\ valid_tags = {}
    /\ filtered_df = <<>>
    /\ final_df = <<>>
    /\ test_data = <<>>

NextLoad == LoadTagEmbeddings \/ ScoreClipDF

SpecLoad == InitLoad /\ [][NextLoad]_vars

\* C22: when the number of rows of the tag-embedding file differs from the
\* number of vocabulary tags, the loading cell aborts with a data validation
\* error and builds no truncated or re-aligned table of tag embeddings.
C22_EmbeddingMismatchAborts ==
    (pc \in {"embeddings_loaded", "scored"}
       /\ Len(tag_embeddings_hyphen_npy) # Len(clap_tags))
    => /\ error # "none"
       /\ tag_embeddings = <<>>
       /\ scored = NoCall

----------------------------------------------------------------------------
(* Data preparation: the valid tags of every sound, the tag count filter   *)
(* and create_input_ground_truth_pairs                                     *)

MaxSounds == 1      \* sounds in the dataframe of the data preparation

MinValidTags == 5
MaxValidTags == 15
InputTagCount == 3

\* the tags of clap_tags.txt
ValidTags == { <<"a">>, <<"b">>, <<"c">>, <<"d">>, <<"e">>, <<"f">> }

\* n tags "a" separated by commas
RECURSIVE Repeated(_)
Repeated(n) == IF n = 1 THEN <<"a">> ELSE Repeated(n - 1) \o <<",", "a">>

\* values of the 'tags' column of the sounds: a missing value, too few valid
\* tags, five tags, five of six valid, a tag listed twice, one tag five
\* times, sixteen tags
SoundTagStrings ==
    { NaN,
      <<"a", ",", "b", ",", "c">>,
      <<"a", ",", "b", ",", "c", ",", "d", ",", "e">>,
      <<"a", ",", " ", "b", " ", ",", "q", ",", "c", ",", "D", ",", "d", ",", "e">>,
      <<"a", ",", "b", ",", "a", ",", "c", ",", "d">>,
      Repeated(5),
      Repeated(16) }

Sounds ==
    { [sound_id |-> 207649, tags |-> s, title |-> "t"] : s \in SoundTagStrings }

\* lines 98-111
ParseAndFilterTags(tags_str, valid) ==
    IF tags_str = NaN THEN <<>>
    ELSE LET parts == Split(tags_str)
             tags == [i \in 1..Len(parts) |-> Strip(parts[i])]
         IN  SelectSeq(tags, LAMBDA tag : tag \in valid)

\* lines 115-116: the columns valid_tags and num_valid_tags
ApplyParseAndFilter ==
    /\ pc = "prep_loaded"
    /\ filtered_df' =
           [i \in 1..Len(filtered_df) |->
               LET tags == ParseAndFilterTags(filtered_df[i].tags, valid_tags)
               IN  [sound_id |-> filtered_df[i].sound_id,
                    tags |-> filtered_df[i].tags,
                    title |-> filtered_df[i].title,
                    valid_tags |-> tags,
                    num_valid_tags |-> Len(tags)]]
    /\ pc' = "prep_parsed"
    /\ UNCHANGED <<error, scored, valid_tags, final_df, test_data>>
    /\ UNCHANGED <<dfVars, evalVars, sbertVars, reportVars, loadVars>>

\* line 129: keep the sounds with 5 to 15 valid tags
FilterByTagCount ==
    /\ pc = "prep_parsed"
    /\ final_df' =
           SelectSeq(filtered_df,
                     LAMBDA r : r.num_valid_tags >= MinValidTags
                                  /\ r.num_valid_tags <= MaxValidTags)
    /\ pc' = "prep_filtered"
    /\ UNCHANGED <<error, scored, valid_tags, filtered_df, test_data>>
    /\ UNCHANGED <<dfVars, evalVars, sbertVars, reportVars, loadVars>>

\* the orders random.shuffle can leave a list of n elements in
ShuffleOrders(n) ==
    { p \in [1..n -> 1..n] : \A i, j \in 1..n : p[i] = p[j] => i = j }

\* lines 193-212: one iteration of the loop of create_input_ground_truth_pairs
PairRecord(sound, shuffled_tags) ==
    [sound_id |-> sound.sound_id,
     input_tags |-> SubSeq(shuffled_tags, 1, Min(InputTagCount, Len(shuffled_tags))),
     ground_truth_tags |-> SubSeq(shuffled_tags, InputTagCount + 1, Len(shuffled_tags)),
     total_tags |-> Len(sound.valid_tags),
     title |-> sound.title]

CreateInputGroundTruthPair ==
    /\ pc = "prep_filtered"
    /\ Len(test_data) < Len(final_df)
    /\ LET sound == final_df[Len(test_data) + 1]
           tags == sound.valid_tags
       IN  \E p \in ShuffleOrders(Len(tags)) :
             LET shuffled_tags == [i \in 1..Len(tags) |-> tags[p[i]]]
             IN  test_data' = Append(test_data, PairRecord(sound, shuffled_tags))
    /\ UNCHANGED <<pc, error, scored, valid_tags, filtered_df, final_df>>
    /\ UNCHANGED <<dfVars, evalVars, sbertVars, reportVars, loadVars>>

\* line 214 and the assignment of line 218
ReturnTestData ==
    /\ pc = "prep_filtered"
    /\ Len(test_data) = Len(final_df)
    /\ pc' = "prep_done"
    /\ UNCHANGED <<error, scored>>
    /\ UNCHANGED <<dfVars, evalVars, sbertVars, reportVars, loadVars, prepVars>>

InitPrep ==
    /\ pc = "prep_loaded"
    /\ metadata_df = <<>>
    /\ clap_tags = <<>>
    /\ total_documents = 0
    /\ tag_document_counts = EmptyDict
    /\ row = 0
    /\ ALPHA = Zero
    /\ tag_df_scores = EmptyDict
    /\ matched_tags = 0
    /\ unmatched_tags = 0
    /\ error = "none"
    /\ scored = NoCall
    /\ tag_embeddings = <<>>
    /\ audio_embeddings = EmptyDict
    /\ filtered_pairs = <<>>
    /\ clip = 0
    /\ results = <<>>
    /\ tag_to_sbert = EmptyDict
    /\ SIMILARITY_THRESHOLD = <<7, 10>>
    /\ semantic = NoCall
    /\ overall = EmptyDict
    /\ summary = EmptyDict
    /\ skips_reported = 0
    /\ tag_embeddings_hyphen_npy = <<>>
    /\ tag_embeddings_array = <<>>
    /\ valid_tags = ValidTags
    /\ filtered_df \in SeqsOf(Sounds, 0, MaxSounds)
    /\ final_df = <<>>
    /\ test_data = <<>>

NextPrep ==
    \/ ApplyParseAndFilter
    \/ FilterByTagCount
    \/ CreateInputGroundTruthPair
    \/ ReturnTestData

SpecPrep == InitPrep /\ [][NextPrep]_vars

\* C23: in every record of create_input_ground_truth_pairs the ground-truth
\* tags are disjoint from the input tags as sets of tag strings, there are
\* exactly 3 input tags, and total_tags is the number of input tags plus the
\* number of ground-truth tags.
C23_InputGroundTruthPairs ==
    \A n \in 1..Len(test_data) :
        LET r == test_data[n]
        IN  /\ Range(r.input_tags) \cap Range(r.ground_truth_tags) = {}
            /\ Len(r.input_tags) = InputTagCount
            /\ r.total_tags = Len(r.input_tags) + Len(r.ground_truth_tags)

\* the parts of C23 that do not depend on repeated tags
C23_CountsOnly ==
    \A n \in 1..Len(test_data) :
        LET r == test_data[n]
        IN  /\ Len(r.input_tags) = InputTagCount
            /\ r.total_tags = Len(r.input_tags) + Len(r.ground_truth_tags)
            /\ r.total_tags >= MinValidTags /\ r.total_tags <= MaxValidTags

----------------------------------------------------------------------------
(* The DF-weighted scorer with ALPHA = 0 *)

\* the table of a run with ALPHA = 0: an entry 1 for every vocabulary tag
IsAlphaZeroTable(df_scores, embeddings) ==
    /\ \A i \in 1..Len(embeddings) : embeddings[i].tag \in DOMAIN df_scores
    /\ \A t \in DOMAIN df_scores : df_scores[t] = One

\* C24: with every weight equal to 1 (ALPHA = 0) the DF-weighted scorer
\* returns the tags and the scores that the baseline scorer returns for the
\* same audio embedding, vocabulary and top_k.
C24_AlphaZeroIsBaseline ==
    (Returned /\ scored.kind = "df"
       /\ IsAlphaZeroTable(scored.df_scores, scored.embeddings))
    => LET baseline == GetTagRecommendations(scored.audio_embedding,
                                             scored.embeddings, scored.top_k)
       IN  /\ scored.top_tags = baseline.top_tags
           /\ scored.top_scores = baseline.top_scores

C24_Witness ==
    /\ Returned /\ scored.kind = "df"
    /\ IsAlphaZeroTable(scored.df_scores, scored.embeddings)
    /\ Len(scored.embeddings) = 3
    /\ scored.top_k = 2
    /\ Len(scored.top_tags) = 2
    /\ scored.top_scores[1] # scored.top_scores[2]
    /\ scored.top_tags[1] # scored.embeddings[1].tag

----------------------------------------------------------------------------
(* Independence of the clips of a run *)

\* the record of the clip in a run of the same notebook on that clip alone
RecordAlone(r) ==
    LET pair == PairOf(r)
        audio_embedding == audio_embeddings[pair.sound_id]
    IN  IF IsSBERTResult(r)
        THEN ClipResultSBERT(pair,
                 GetTagRecommendationsDFWeighted(audio_embedding, tag_embeddings,
                                                 tag_df_scores, EvalTopK),
                 EncodeTags(<<pair>>, clap_tags), SIMILARITY_THRESHOLD)
        ELSE IF r.base_scores = <<>> /\ tag_df_scores = EmptyDict
        THEN ClipResult(pair,
                 GetTagRecommendations(audio_embedding, tag_embeddings, EvalTopK),
                 <<>>, <<>>)
        ELSE LET d == GetTagRecommendationsDFWeighted(audio_embedding, tag_embeddings,
                                                      tag_df_scores, EvalTopK)
             IN  ClipResult(pair, d, d.top_base_scores, d.top_df_weights)

ClipsAreIndependent == \A n \in 1..Len(results) : results[n] = RecordAlone(results[n])

TablesAndRecordsKept ==
    /\ tag_embeddings' = tag_embeddings
    /\ tag_df_scores' = tag_df_scores
    /\ tag_to_sbert' = tag_to_sbert
    /\ Len(results') >= Len(results)
    /\ SubSeq(results', 1, Len(results)) = results

\* C25: the result record of a clip is the record of a run on that clip
\* alone, whatever other clips are in the run and wherever it stands in the
\* run; evaluating a clip changes neither the tag embeddings, the DF weight
\* table, the phrase-embedding table nor the records of earlier clips.
C25_NoCrossClipState == [](ClipsAreIndependent) /\ [][TablesAndRecordsKept]_vars

C25_Witness ==
    /\ Len(results) = 2
    /\ IsSBERTResult(results[2])
    /\ results[1].sound_id = 6
    /\ results[2].sound_id = 1
    /\ results[2].num_semantic_hits > results[2].num_exact_hits
    /\ results[1] # results[2]

----------------------------------------------------------------------------
(* Ranges of the per-clip metrics *)

\* C26: per-clip precision and recall lie in [0, 1]: in exact and in
\* semantic evaluation the number of hits of a clip exceeds neither K nor
\* the number of its ground-truth tags.
C26_MetricsInUnitInterval ==
    \A n \in 1..Len(results) :
        LET r == results[n]
        IN  /\ HitCountOf(r) <= EvalTopK
            /\ HitCountOf(r) <= Len(r.ground_truth_tags)
            /\ InUnitInterval(r.precision_at_10)
            /\ InUnitInterval(r.recall)

\* the same for the exact-match notebooks only
C26_ExactOnly ==
    \A n \in 1..Len(results) :
        LET r == results[n]
        IN  ~IsSBERTResult(r) =>
              /\ HitCountOf(r) <= EvalTopK
              /\ HitCountOf(r) <= Len(r.ground_truth_tags)
              /\ InUnitInterval(r.precision_at_10)
              /\ InUnitInterval(r.recall)

\* the same for semantic evaluation at the notebook's threshold 0.7
C26_SemanticAtDefaultThreshold ==
    SIMILARITY_THRESHOLD = <<7, 10>> =>
        \A n \in 1..Len(results) :
            LET r == results[n]
            IN  IsSBERTResult(r) =>
                  /\ HitCountOf(r) <= Len(r.ground_truth_tags)
                  /\ InUnitInterval(r.recall)

----------------------------------------------------------------------------
(* The match records of compute_semantic_hits *)

\* C27: for every threshold, prediction list and ground-truth list, the
\* matched_gt of every match record is not null and is a tag of the
\* ground-truth list, and no hit is recorded when no ground-truth tag can be
\* compared against.
C27_MatchNamesGroundTruth ==
    SemReturned =>
        /\ \A n \in 1..Len(semantic.semantic_matches) :
               /\ semantic.semantic_matches[n].matched_gt # None
               /\ semantic.semantic_matches[n].matched_gt \in Range(SemGroundTruth)
        /\ EmbeddedGroundTruth = {} => semantic.hits = <<>>

----------------------------------------------------------------------------
(* Division by zero in the run-level aggregation *)

Aggregated == pc \in {"overall_baseline", "overall_df", "overall_sbert"}

\* C28: the run-level aggregation completes for every run, also for a run
\* with no evaluated clip and for a run whose ground-truth tags total zero:
\* the overall precision, recall and F1 are all computed and no division by
\* zero is raised.
C28_AggregationCompletes ==
    Aggregated =>
        {"overall_precision", "overall_recall", "overall_f1"} \subseteq DOMAIN overall

\* C29: an SBERT run whose exact hits total zero completes its aggregation
\* without dividing total_semantic_hits by a zero total_exact_hits, and can
\* go on to save its results.
C29_ZeroExactHitsCompletes ==
    (pc = "overall_sbert"
       /\ "overall_recall" \in DOMAIN overall
       /\ overall.total_exact_hits = 0)
    => error = "none"

----------------------------------------------------------------------------
(* DF weights of the tags that have embeddings *)

UnseenInCorpus(tag) == Lower(tag) \notin DOMAIN tag_document_counts

\* C30: in the DF notebook every key of tag_embeddings has an entry in
\* tag_df_scores, also when the embedding file and the vocabulary differ in
\* length; the scorer's fallback weight 1.0 is never applied, and a tag
\* unseen in the corpus is weighted 1 - ALPHA.
C30_EveryEmbeddedTagHasWeight ==
    (pc \in {"embeddings_loaded", "scored"})
    => /\ \A i \in 1..Len(tag_embeddings) :
              tag_embeddings[i].tag \in DOMAIN tag_df_scores
       /\ scored.kind = "df" =>
              \A i \in 1..Len(scored.top_tags) :
                  /\ scored.top_df_weights[i] = tag_df_scores[scored.top_tags[i]]
                  /\ UnseenInCorpus(scored.top_tags[i]) =>
                         scored.top_df_weights[i] = RSub(One, ALPHA)

C30_Witness ==
    /\ pc = "scored"
    /\ Len(tag_embeddings_hyphen_npy) # Len(clap_tags)
    /\ Len(tag_embeddings) = 2
    /\ ALPHA = <<7, 10>>
    /\ \E i, j \in 1..Len(scored.top_tags) :
          /\ UnseenInCorpus(scored.top_tags[i])
          /\ scored.top_df_weights[i] = <<3, 10>>
          /\ ~UnseenInCorpus(scored.top_tags[j])

====
